---- MODULE Spec2Model ----
(***************************************************************************)
(* Model of the RoboZilla core runtime (build mode): the job lifecycle     *)
(* state machine (executor/state_machine.py), the job engine               *)
(* (executor/engine.py), the evaluation service (evaluator/service.py),    *)
(* the artifact endpoint (api/main.py) and the SQLite stores               *)
(* (storage/sqlite.py).                                                    *)
(*                                                                         *)
(* Documents are nested records; a Python dict with optional keys is a     *)
(* function whose DOMAIN is the set of keys present.  Every store call of  *)
(* a handler is one step of the worker that serves the request: the        *)
(* stores run in autocommit mode, so the store calls are the points at     *)
(* which the clock and other workers are visible.                          *)
(***************************************************************************)
EXTENDS Integers, Sequences, FiniteSets, TLC

VARIABLES
    now,        \* the wall clock, in units of 1/SubSecond second (utils.utcnow)
    jobs,       \* table jobs: job_id -> row, or NoRow
    events,     \* table job_events: the sequence of rows, in event_id order
    artifacts,  \* table artifacts: artifact_id -> row, or NoRow
    evaluations,\* table evaluations: evaluation_id -> row, or NoRow
    cfg,        \* construction-time configuration of the engine
    budget,     \* how far a behaviour goes: rows of the event log, clock ticks
    wk,         \* per worker: the request being served and its locals
    sm          \* harness of the pure functions: the call made and its outcome

vars == <<now, jobs, events, artifacts, evaluations, cfg, budget, wk, sm>>

-----------------------------------------------------------------------------
(* Values *)

\* Python None, for optional string fields
None == "<None>"

\* variant that takes the empty string for a value
Truthy_not_none(v) == v # None

\* Python truthiness of an optional string: None and "" are falsy
Truthy(v) == v # None /\ v # ""

\* A slot that holds no document / no row
NoDoc == [nodoc |-> TRUE]
NoRow == [norow |-> TRUE]

\* A value that is not a dict (isinstance(v, dict) is False)
NotADict == [notadict |-> TRUE]

isinstance_dict(v) == v # NotADict

\* variant of d[k] = v that leaves a key the dict already has
SetKey_keep_existing(d, k, v) ==
    [x \in (DOMAIN d) \cup {k} |-> IF x \in DOMAIN d THEN d[x] ELSE v]

\* d[k] = v on a dict
SetKey(d, k, v) == [x \in (DOMAIN d) \cup {k} |-> IF x = k THEN v ELSE d[x]]

\* d.setdefault(k, v)
SetDefault(d, k, v) == IF k \in DOMAIN d THEN d ELSE SetKey(d, k, v)

-----------------------------------------------------------------------------
(* utils.py: timestamps.  An RFC 3339 string is the record of its local    *)
(* time and its zone designator; a datetime is the UTC instant.            *)

\* Instants and durations are counted in units of 1/SubSecond second.
SubSecond == 2

\* datetime.timedelta(seconds=...)
timedelta(seconds) == seconds * SubSecond

\* datetime.microsecond, in the model's units
microsecond(dt) == dt % SubSecond

Zones == {"Z", "+00:00", "+00:01"}

OffsetSeconds(zone) == IF zone = "+00:01" THEN timedelta(60) ELSE 0

parse_rfc3339(s) == s.local - OffsetSeconds(s.zone)

format_rfc3339(dt) == [local |-> dt, zone |-> "Z"]

\* storage/sqlite.py _utc_iso: the same rendering, used for event rows.
\* datetime.isoformat() writes the fraction of the second only when
\* microsecond is not 0: "00:00:30Z", but "00:00:30.500000Z".
_utc_iso(dt) == [local |-> dt, zone |-> "Z"]

\* utils.json_dumps / json.loads: the stored text of a document
json_dumps(doc) == <<"json", doc>>

json_loads(text) == text[2]

-----------------------------------------------------------------------------
(* executor/state_machine.py *)

States == {"created", "running", "waiting", "completed", "failed", "expired"}

_TERMINAL_STATES == {"completed", "failed", "expired"}

\* variant of the table in which waiting does not lead to running
_ALLOWED_waiting_stuck ==
    [s \in States |->
        CASE s = "created" -> {"running", "waiting", "completed", "failed"}
          [] s = "running" -> {"waiting", "completed", "failed"}
          [] s = "waiting" -> {"completed", "failed"}
          [] OTHER -> {}]

_ALLOWED ==
    [s \in States |->
        CASE s = "created" -> {"running", "waiting", "completed", "failed"}
          [] s = "running" -> {"waiting", "completed", "failed"}
          [] s = "waiting" -> {"running", "completed", "failed"}
          [] OTHER -> {}]

TransitionRequest(new_state, t, final_evaluation_ref, failure_mode, failure_details, expiry_reason, last_stop_condition) ==
    [new_state |-> new_state, now |-> t,
     final_evaluation_ref |-> final_evaluation_ref,
     failure_mode |-> failure_mode,
     failure_details |-> failure_details,
     expiry_reason |-> expiry_reason,
     last_stop_condition |-> last_stop_condition]

\* TransitionRequest(new_state=..., now=...) with every optional field defaulted
PlainRequest(new_state, t) ==
    TransitionRequest(new_state, t, None, None, None, None, None)

\* TransitionRequest(new_state="expired", now=now, expiry_reason="expires_at_reached")
ExpiryRequest(t) ==
    TransitionRequest("expired", t, None, None, None, "expires_at_reached", None)

\* variant that does not count completed as terminal
is_terminal_without_completed(state) == state \in {"failed", "expired"}

is_terminal(state) == state \in _TERMINAL_STATES

\* deep_get(job, ["spec", "status", "state"]) finds the path
HasStatusState(job) ==
    /\ "spec" \in DOMAIN job
    /\ "status" \in DOMAIN job.spec
    /\ isinstance_dict(job.spec.status)
    /\ "state" \in DOMAIN job.spec.status

\* The outcome of a call: what is returned or raised, and the caller's
\* document as it is after the call.
Returned(doc, input) == [kind |-> "ok", job |-> doc, input_after |-> input]

Raised(err, input) == [kind |-> err, job |-> NoDoc, input_after |-> input]

\* variant: `updated = job`, the copy is the caller's document itself
deepcopy_alias(job) == [doc |-> job, shared |-> TRUE]

\* deepcopy(job): a document that shares nothing with the input
deepcopy(job) == [doc |-> job, shared |-> FALSE]

\* The caller's document after `status` was written into `updated`
InputAfter(job, updated, status) ==
    IF updated.shared THEN [job EXCEPT !.spec.status = status] ELSE job

\* lines 75-103: the writes to the copy's status, in order, up to the first raise
WriteStatus(job, updated, req) ==
    LET new_state == req.new_state
        s0 == updated.doc.spec.status
        s1 == SetKey(SetKey(s0, "state", new_state),
                     "status_updated_at", format_rfc3339(req.now))
        s2 == IF new_state = "running"
              THEN SetDefault(s1, "started_at", format_rfc3339(req.now))
              ELSE s1
        needRef == new_state \in {"completed", "failed"}
        s3 == IF needRef
              THEN SetKey(SetKey(s2, "final_evaluation_ref", req.final_evaluation_ref),
                          "terminal_at", format_rfc3339(req.now))
              ELSE s2
        s4a == IF new_state = "failed"
               THEN SetKey(s3, "failure_mode", req.failure_mode)
               ELSE s3
        s4 == IF new_state = "failed" /\ Truthy(req.failure_details)
              THEN SetKey(s4a, "failure_details", req.failure_details)
              ELSE s4a
        s5 == IF new_state = "expired"
              THEN SetKey(SetKey(s4, "expiry_reason", req.expiry_reason),
                          "terminal_at", format_rfc3339(req.now))
              ELSE s4
        s6 == IF Truthy(req.last_stop_condition)
              THEN SetKey(s5, "last_stop_condition", req.last_stop_condition)
              ELSE s5
    IN  IF needRef /\ ~Truthy(req.final_evaluation_ref)
        THEN Raised("ContractViolationError", InputAfter(job, updated, s2))
        ELSE IF new_state = "failed" /\ ~Truthy(req.failure_mode)
        THEN Raised("ContractViolationError", InputAfter(job, updated, s3))
        ELSE IF new_state = "expired" /\ ~Truthy(req.expiry_reason)
        THEN Raised("ContractViolationError", InputAfter(job, updated, s4))
        ELSE Returned([updated.doc EXCEPT !.spec.status = s6],
                      InputAfter(job, updated, s6))

apply_transition(job, req) ==
    IF ~HasStatusState(job) THEN Raised("KeyError", job)
    ELSE
    LET current_state == job.spec.status.state
        new_state == req.new_state
    IN  IF new_state = current_state THEN Returned(job, job)
        ELSE IF is_terminal(current_state) THEN Raised("ConflictError", job)
        ELSE IF /\ new_state # "expired"
                /\ \/ current_state \notin DOMAIN _ALLOWED
                   \/ new_state \notin _ALLOWED[current_state]
        THEN Raised("ConflictError", job)
        ELSE LET updated == deepcopy(job)
             IN  IF ~isinstance_dict(updated.doc.spec.status)
                 THEN Raised("ContractViolationError", job)
                 ELSE WriteStatus(job, updated, req)

-----------------------------------------------------------------------------
(* executor/policy.py *)

Range(list) == {list[i] : i \in DOMAIN list}

\* dict.get(k): the value, or d (None) when the key is absent
Get(d, k, dflt) == IF k \in DOMAIN d THEN d[k] ELSE dflt

\* variant: only the state is looked at
enforce_job_contract_submission_shape_state_only(job) ==
    LET status == job.spec.status
    IN  IF ~isinstance_dict(status) THEN "PolicyViolationError"
        ELSE IF Get(status, "state", None) # "created" THEN "PolicyViolationError"
        ELSE "ok"

enforce_job_contract_submission_shape(job) ==
    LET status == job.spec.status
    IN  IF ~isinstance_dict(status) THEN "PolicyViolationError"
        ELSE IF Get(status, "state", None) # "created" THEN "PolicyViolationError"
        ELSE IF \E forbidden \in {"started_at", "terminal_at", "final_evaluation_ref",
                                  "failure_mode", "expiry_reason"} :
                    forbidden \in DOMAIN status
        THEN "PolicyViolationError"
        ELSE "ok"

enforce_job_contract_limits(job, limits, t) ==
    LET created_at == parse_rfc3339(job.spec.timestamps.created_at)
        expires_at == parse_rfc3339(job.spec.timestamps.expires_at)
        exec_limits == job.spec.execution_limits
    IN  IF expires_at <= created_at THEN "PolicyViolationError"
        ELSE IF expires_at <= t THEN "PolicyViolationError"
        ELSE IF expires_at - created_at > timedelta(limits.max_expires_in_seconds_upper_bound)
        THEN "PolicyViolationError"
        ELSE IF exec_limits.max_iterations > limits.max_iterations_upper_bound
        THEN "PolicyViolationError"
        ELSE IF exec_limits.max_runtime_seconds > limits.max_runtime_seconds_upper_bound
        THEN "PolicyViolationError"
        ELSE IF exec_limits.cost_cap.currency # limits.max_cost_upper_bound_currency
        THEN "PolicyViolationError"
        ELSE IF exec_limits.cost_cap.max_cost > limits.max_cost_upper_bound
        THEN "PolicyViolationError"
        ELSE "ok"

_enforce_required_artifacts_allowed(job, org) ==
    LET required == job.spec.required_artifacts
        allowed_ids == {x.type_id : x \in Range(org.spec.artifact_policy.allowed_types)}
        denied_ids == {x.type_id : x \in Range(org.spec.artifact_policy.denied_types)}
    IN  IF \E ra \in Range(required) :
               ra.artifact_type \in denied_ids \/ ra.artifact_type \notin allowed_ids
        THEN "PolicyViolationError"
        ELSE "ok"

\* variant: the allow list is looked at before the deny list
SkillEntryAllowed_allow_first(entry, allow, deny, org_default) ==
    IF entry \in allow THEN TRUE
    ELSE IF entry \in deny THEN FALSE
    ELSE org_default = "allow"

\* The three-step rule for one skill id or one skill category
SkillEntryAllowed(entry, allow, deny, org_default) ==
    IF entry \in deny THEN FALSE
    ELSE IF entry \in allow THEN TRUE
    ELSE org_default = "allow"

SkillsAllowed(job, org) ==
    LET pol == org.spec.skill_policy
        job_skills == job.spec.permissions_snapshot.skills
    IN  /\ \A sid \in Range(job_skills.allowed_skill_ids) :
              SkillEntryAllowed(sid, Range(pol.allow.skill_ids),
                                Range(pol.deny.skill_ids), pol.default_rule)
        /\ \A cat \in Range(job_skills.allowed_skill_categories) :
              SkillEntryAllowed(cat, Range(pol.allow.skill_categories),
                                Range(pol.deny.skill_categories), pol.default_rule)

\* org_mcp_by_id[mcp_id]: a later entry of the list replaces an earlier one
OrgMcpById(org, mcp_id) ==
    LET list == org.spec.external_access.mcp.allowed
        idx == {i \in DOMAIN list : list[i].mcp_id = mcp_id}
    IN  list[CHOOSE i \in idx : \A k \in idx : k <= i]

McpEntryAllowed(obj, org) ==
    /\ \E x \in Range(org.spec.external_access.mcp.allowed) : x.mcp_id = obj.mcp_id
    /\ LET org_obj == OrgMcpById(org, obj.mcp_id)
           org_scopes == Range(org_obj.allowed_scopes)
           job_scopes == Range(obj.allowed_scopes)
       IN  /\ obj.ref = org_obj.ref
           /\ org_scopes # {} => (job_scopes # {} /\ job_scopes \subseteq org_scopes)

McpAllowed(job, org) ==
    \A obj \in Range(job.spec.permissions_snapshot.mcp.allowed) : McpEntryAllowed(obj, org)

\* variant: the job's list is not compared with the org's denylist
_subset_list_no_deny(job_list, org_list, deny_list) ==
    Range(job_list) \subseteq Range(org_list)

\* _subset_list for one label
_subset_list(job_list, org_list, deny_list) ==
    /\ Range(job_list) \subseteq Range(org_list)
    /\ Range(job_list) \cap Range(deny_list) = {}

DirectNetworkAllowed(job, org) ==
    LET org_net == org.spec.external_access.direct_network
        job_net == job.spec.permissions_snapshot.direct_external_network
    IN  IF org_net.policy = "deny_all" /\ job_net.policy # "deny_all" THEN FALSE
        ELSE IF org_net.policy = "allowlist" /\ job_net.policy = "allowlist"
        THEN \A label \in {"domains", "urls", "ip_cidrs"} :
                _subset_list(job_net.allowlist[label], org_net.allowlist[label],
                             org_net.denylist[label])
        ELSE TRUE

_enforce_permissions_snapshot(job, org) ==
    IF SkillsAllowed(job, org) /\ McpAllowed(job, org) /\ DirectNetworkAllowed(job, org)
    THEN "ok" ELSE "PolicyViolationError"

_enforce_execution_limits_vs_org(job, org) ==
    LET job_exec == job.spec.execution_limits
        org_exec == org.spec.execution_limits
    IN  IF job_exec.cost_cap.currency # org_exec.cost_caps.currency
        THEN "PolicyViolationError"
        ELSE IF job_exec.cost_cap.max_cost > org_exec.cost_caps.max_cost_per_job
        THEN "PolicyViolationError"
        ELSE IF job_exec.max_runtime_seconds > org_exec.timeouts.max_job_runtime_seconds
        THEN "PolicyViolationError"
        ELSE "ok"

enforce_job_within_org_policy(job, org) ==
    IF _enforce_required_artifacts_allowed(job, org) # "ok" THEN "PolicyViolationError"
    ELSE IF _enforce_permissions_snapshot(job, org) # "ok" THEN "PolicyViolationError"
    ELSE _enforce_execution_limits_vs_org(job, org)

-----------------------------------------------------------------------------
(* Bounds of the model *)

\* the clock stops after MaxTicks ticks
MaxTicks == 2

\* no request is started once the event log holds more than MaxEvents - 2 rows
MaxEvents == 5

\* engine.py run_job: since = now - timedelta(seconds=60)
RateWindowSeconds == 60

\* the clock advances in half windows
TickStep == timedelta(RateWindowSeconds \div 2)

JobIds == {"j1", "j2"}

EvaluationIds == {"e1", "e2"}

ArtifactIds == {"a1"}

Workers == {"w1", "w2"}

\* the workers that serve requests one after another
SeqWorkers == {"w1"}

-----------------------------------------------------------------------------
(* registry/registry.py: the snapshot loaded at startup *)

OrganizationManifest(org_id, max_active_jobs, max_job_starts_per_minute) ==
    [metadata |-> [org_id |-> org_id],
     spec |->
       [artifact_policy |->
          [allowed_types |-> <<[type_id |-> "report"]>>,
           denied_types |-> <<[type_id |-> "binary"]>>],
        skill_policy |->
          [default_rule |-> "deny",
           allow |-> [skill_ids |-> <<"search">>, skill_categories |-> <<"read">>],
           deny |-> [skill_ids |-> <<"shell">>, skill_categories |-> <<"exec">>]],
        external_access |->
          [mcp |-> [allowed |-> <<[mcp_id |-> "git", ref |-> "mcp/git",
                                   allowed_scopes |-> <<"read">>]>>],
           direct_network |->
             [policy |-> "allowlist",
              allowlist |-> [domains |-> <<"example.org">>, urls |-> <<>>, ip_cidrs |-> <<>>],
              denylist |-> [domains |-> <<"evil.org">>, urls |-> <<>>, ip_cidrs |-> <<>>]]],
        execution_limits |->
          [concurrency |-> [max_active_jobs |-> max_active_jobs],
           rate_limits |-> [max_job_starts_per_minute |-> max_job_starts_per_minute],
           cost_caps |-> [currency |-> "USD", max_cost_per_job |-> 100],
           timeouts |-> [max_job_runtime_seconds |-> 3600]],
        agent_roles |->
          <<[role_id |-> "builder", ref |-> "agents/definitions/a.yaml"],
            [role_id |-> "reviewer", ref |-> "agents/definitions/b.yaml"]>>]]

AgentDefinition(agent_id, role, level) ==
    [metadata |-> [agent_id |-> agent_id, role |-> role],
     spec |-> [authority |-> [level |-> level],
               org_inclusion |-> [mode |-> "any", allow_org_ids |-> <<>>]]]

\* Registry._orgs
_orgs ==
    [o \in {"orgA", "orgZ"} |->
        IF o = "orgA" THEN OrganizationManifest("orgA", 1, 2)
        ELSE OrganizationManifest("orgZ", 0, 2)]

\* Registry._agents
_agents ==
    [a \in {"agentA", "agentB", "agentX"} |->
        CASE a = "agentA" -> AgentDefinition("agentA", "builder", "senior")
          [] a = "agentB" -> AgentDefinition("agentB", "reviewer", "junior")
          [] OTHER -> AgentDefinition("agentX", "outsider", "senior")]

\* Registry._agents_by_path
_agents_by_path ==
    [p \in {"agents/definitions/a.yaml", "agents/definitions/b.yaml",
            "agents/definitions/x.yaml"} |->
        CASE p = "agents/definitions/a.yaml" -> "agentA"
          [] p = "agents/definitions/b.yaml" -> "agentB"
          [] OTHER -> "agentX"]

has_org(org_id) == org_id \in DOMAIN _orgs

get_org(org_id) == _orgs[org_id]

has_agent(agent_id) == agent_id \in DOMAIN _agents

get_agent(agent_id) == _agents[agent_id]

included_agent_ids_for_org(org_id) ==
    {_agents_by_path[role_ref.ref] : role_ref \in
        {r \in Range(get_org(org_id).spec.agent_roles) : r.ref \in DOMAIN _agents_by_path}}

\* variant: require_known_org is on whatever the configuration says
LimitsConfig_org_required(require_known_org) ==
    [max_iterations_upper_bound |-> 500,
     max_runtime_seconds_upper_bound |-> 86400,
     max_cost_upper_bound_currency |-> "USD",
     max_cost_upper_bound |-> 100,
     max_expires_in_seconds_upper_bound |-> 604800,
     require_known_org |-> TRUE]

\* config/settings.py LimitsConfig, with the defaults of load_limits_config
LimitsConfig(require_known_org) ==
    [max_iterations_upper_bound |-> 500,
     max_runtime_seconds_upper_bound |-> 86400,
     max_cost_upper_bound_currency |-> "USD",
     max_cost_upper_bound |-> 100,
     max_expires_in_seconds_upper_bound |-> 604800,
     require_known_org |-> require_known_org]

\* registry/schema_validator.py validate(kind, document): `conforms` is the
\* verdict of the schema file of `kind` on the document
validate(kind, document, conforms) ==
    IF conforms THEN "ok" ELSE "SchemaValidationError"

\* The schema files are not among the sources.  The documents the core
\* builds itself with apply_transition and validates before it stores them
\* (engine.py lines 82, 115 and 121, service.py lines 62 and 122) are taken
\* to pass.

-----------------------------------------------------------------------------
(* The documents that clients submit *)

JobContract(job_id, org_id, created_at, expires_at, max_cost, status) ==
    [metadata |-> [job_id |-> job_id, org_id |-> org_id],
     spec |->
       [timestamps |-> [created_at |-> created_at, expires_at |-> expires_at],
        execution_limits |->
          [max_iterations |-> 10, max_runtime_seconds |-> 60,
           cost_cap |-> [currency |-> "USD", max_cost |-> max_cost]],
        required_artifacts |-> <<[artifact_type |-> "report"]>>,
        permissions_snapshot |->
          [skills |-> [allowed_skill_ids |-> <<"search">>,
                       allowed_skill_categories |-> <<>>],
           mcp |-> [allowed |-> <<>>],
           direct_external_network |->
             [policy |-> "deny_all",
              allowlist |-> [domains |-> <<>>, urls |-> <<>>, ip_cidrs |-> <<>>]]],
        status |-> status]]

CreatedStatus == [state |-> "created", status_updated_at |-> [local |-> 0, zone |-> "Z"]]

\* j1 expires at 00:01:00Z; j2 at the same instant, written with an offset
ExpiresAtOf(job_id) ==
    IF job_id = "j1" THEN [local |-> timedelta(60), zone |-> "Z"]
    ELSE [local |-> timedelta(120), zone |-> "+00:01"]

\* Submissions the engine is offered: admissible ones, and one for each
\* reason of rejection
JobInputs ==
    {JobContract(j, "orgA", [local |-> 0, zone |-> "Z"], ExpiresAtOf(j), 1, CreatedStatus) :
        j \in JobIds}
    \cup {JobContract("j2", "orgU", [local |-> 0, zone |-> "Z"], ExpiresAtOf("j2"), 1,
                      CreatedStatus),
          JobContract("j1", "orgA", [local |-> 0, zone |-> "Z"], ExpiresAtOf("j1"),
                      1000, CreatedStatus),
          JobContract("j1", "orgA", [local |-> 0, zone |-> "Z"], ExpiresAtOf("j1"),
                      1, [state |-> "running",
                          status_updated_at |-> [local |-> 0, zone |-> "Z"]]),
          JobContract("j1", "orgA", [local |-> 0, zone |-> "Z"], ExpiresAtOf("j1"),
                      1, [state |-> "created",
                          status_updated_at |-> [local |-> 0, zone |-> "Z"],
                          started_at |-> [local |-> 0, zone |-> "Z"]]),
          JobContract("j1", "orgA", [local |-> timedelta(60), zone |-> "Z"], ExpiresAtOf("j1"),
                      1, CreatedStatus)}

Artifact(artifact_id, org_id, artifact_type, job_id, agent_id) ==
    [metadata |-> [artifact_id |-> artifact_id, org_id |-> org_id,
                   artifact_type |-> artifact_type],
     spec |-> [job_ref |-> [job_id |-> job_id],
               produced_by |-> [agent_id |-> agent_id],
               created_at |-> [local |-> 0, zone |-> "Z"]]]

ArtifactInputs ==
    {Artifact(a, "orgA", "report", "j1", g) :
        a \in ArtifactIds, g \in {"agentB", "agentX", ""}}
    \cup {Artifact("a1", "orgA", "report", "j2", "agentA"),
          Artifact("a1", "orgU", "report", "j2", "agentA"),
          Artifact("a1", "orgA", "binary", "j1", "agentA")}

Evaluation(evaluation_id, org_id, job_id, evaluator, artifact_decisions, next_job_state) ==
    [metadata |-> [evaluation_id |-> evaluation_id, org_id |-> org_id],
     spec |-> [job_ref |-> [job_id |-> job_id],
               evaluator |-> evaluator,
               artifact_decisions |-> artifact_decisions,
               outcome |-> [status |-> "decided", next_job_state |-> next_job_state],
               created_at |-> [local |-> 0, zone |-> "Z"]]]

Evaluator(actor_type, actor_id, authority_level) ==
    [actor_type |-> actor_type, actor_id |-> actor_id,
     authority_level |-> authority_level]

\* e1 is written by a human, e2 by an agent
EvaluationInputs ==
    {Evaluation("e1", o, j, Evaluator("human", "alice", "senior"), <<>>, n) :
        o \in {"orgA", "orgU"}, j \in JobIds,
        n \in {"running", "completed", "failed", "created"}}
    \cup {Evaluation("e2", "orgA", j, Evaluator("agent", "agentB", "junior"),
                     <<[producing_agent_id |-> "agentA"]>>, n) :
            j \in JobIds, n \in {"waiting", "completed", "failed"}}
    \cup {Evaluation("e2", "orgA", "j1", ev, <<[producing_agent_id |-> "agentA"]>>,
                     "completed") :
            ev \in {Evaluator("agent", "agentA", "senior"),
                    Evaluator("agent", "agentB", "senior"),
                    Evaluator("agent", "agentX", "senior"),
                    Evaluator("agent", "ghost", "senior")}}
    \cup {Evaluation("e2", "orgU", "j2", Evaluator("agent", "agentB", "junior"),
                     <<>>, "completed")}

-----------------------------------------------------------------------------
(* storage/sqlite.py *)

_extract_job_columns(job) ==
    [job_id |-> job.metadata.job_id,
     org_id |-> job.metadata.org_id,
     state |-> job.spec.status.state,
     status_updated_at |-> job.spec.status.status_updated_at,
     doc_json |-> json_dumps(job)]

_extract_artifact_columns(artifact) ==
    [artifact_id |-> artifact.metadata.artifact_id,
     org_id |-> artifact.metadata.org_id,
     job_id |-> artifact.spec.job_ref.job_id,
     artifact_type |-> artifact.metadata.artifact_type,
     produced_by_agent_id |-> artifact.spec.produced_by.agent_id,
     doc_json |-> json_dumps(artifact)]

_extract_evaluation_columns(evaluation) ==
    [evaluation_id |-> evaluation.metadata.evaluation_id,
     org_id |-> evaluation.metadata.org_id,
     job_id |-> evaluation.spec.job_ref.job_id,
     next_job_state |-> evaluation.spec.outcome.next_job_state,
     evaluator_actor_type |-> evaluation.spec.evaluator.actor_type,
     evaluator_actor_id |-> evaluation.spec.evaluator.actor_id,
     doc_json |-> json_dumps(evaluation)]

\* SELECT doc_json FROM <table> WHERE <key> = ? finds a row
HasRow(table, id) == id \in DOMAIN table /\ table[id] # NoRow

\* SQLiteJobStore.get / SQLiteArtifactStore.get / SQLiteEvaluationStore.get
StoreGet(table, id) == json_loads(table[id].doc_json)

\* JobStore.get(job_id) on the jobs table
StoredGet(job_id) == StoreGet(jobs, job_id)

\* The outcome of a store write: the error raised ("ok" when none) and the table
Stored(table) == [err |-> "ok", table |-> table]

Refused(err, table) == [err |-> err, table |-> table]

\* variant: the row of a taken primary key is replaced before the conflict
\* is raised
JobStore_create_replacing(table, job) ==
    IF HasRow(table, job.metadata.job_id)
    THEN Refused("ConflictError",
                 [table EXCEPT ![job.metadata.job_id] = _extract_job_columns(job)])
    ELSE Stored([table EXCEPT ![job.metadata.job_id] = _extract_job_columns(job)])

\* SQLiteJobStore.create: INSERT INTO jobs; a taken primary key is a conflict
JobStore_create(table, job) ==
    IF HasRow(table, job.metadata.job_id) THEN Refused("ConflictError", table)
    ELSE Stored([table EXCEPT ![job.metadata.job_id] = _extract_job_columns(job)])

\* variant: an UPDATE without its WHERE clause writes every row
JobStore_update_every_row(table, job) ==
    IF ~HasRow(table, job.metadata.job_id) THEN Refused("NotFoundError", table)
    ELSE Stored([j \in DOMAIN table |->
                    IF table[j] = NoRow THEN NoRow ELSE _extract_job_columns(job)])

\* variant: INSERT OR REPLACE overwrites the row of a taken artifact_id
ArtifactStore_append_or_replace(table, artifact) ==
    Stored([table EXCEPT ![artifact.metadata.artifact_id] =
                             _extract_artifact_columns(artifact)])

\* SQLiteJobStore.update: UPDATE jobs SET ... WHERE job_id = ?; rowcount # 1
\* is not-found
JobStore_update(table, job) ==
    IF ~HasRow(table, job.metadata.job_id) THEN Refused("NotFoundError", table)
    ELSE Stored([table EXCEPT ![job.metadata.job_id] = _extract_job_columns(job)])

\* SQLiteArtifactStore.append
ArtifactStore_append(table, artifact) ==
    IF HasRow(table, artifact.metadata.artifact_id) THEN Refused("ConflictError", table)
    ELSE Stored([table EXCEPT ![artifact.metadata.artifact_id] =
                                  _extract_artifact_columns(artifact)])

\* SQLiteEvaluationStore.append
EvaluationStore_append(table, evaluation) ==
    IF HasRow(table, evaluation.metadata.evaluation_id)
    THEN Refused("ConflictError", table)
    ELSE Stored([table EXCEPT ![evaluation.metadata.evaluation_id] =
                                  _extract_evaluation_columns(evaluation)])

\* variant: only the running jobs are counted
count_active_by_org_running_only(table, org_id) ==
    Cardinality({j \in DOMAIN table :
        /\ table[j] # NoRow
        /\ table[j].org_id = org_id
        /\ table[j].state = "running"})

count_active_by_org(table, org_id) ==
    Cardinality({j \in DOMAIN table :
        /\ table[j] # NoRow
        /\ table[j].org_id = org_id
        /\ table[j].state \in {"running", "waiting"}})

\* ts >= ? on two renderings of _utc_iso: SQLite compares the two texts byte
\* by byte.  They agree in length and layout up to the seconds; after the
\* seconds one has "Z" or "." and six digits, and "." sorts before "Z".
TsGe(a, b) ==
    LET sa == a.local \div SubSecond
        sb == b.local \div SubSecond
    IN  IF sa # sb THEN sa > sb
        ELSE IF microsecond(a.local) = 0 THEN TRUE
        ELSE IF microsecond(b.local) = 0 THEN FALSE
        ELSE microsecond(a.local) >= microsecond(b.local)

\* SQLiteJobStore.record_event: INSERT INTO job_events, ts from the clock
record_event(log, t, org_id, job_id, event_type, details) ==
    Append(log, [ts |-> _utc_iso(t), org_id |-> org_id, job_id |-> job_id,
                 event_type |-> event_type, details |-> details])

count_events_since(log, org_id, event_type, since) ==
    Cardinality({i \in DOMAIN log :
        /\ log[i].org_id = org_id
        /\ log[i].event_type = event_type
        /\ TsGe(log[i].ts, _utc_iso(since))})

-----------------------------------------------------------------------------
(* Workers.  A worker serves one request at a time; pc is the store call   *)
(* it makes next.  n_sub, n_chg and n_ev count, for the request in hand,   *)
(* the documents it inserted, the changes it made to a stored job state,   *)
(* and the events it appended.                                             *)

NoReturn == [kind |-> "none", job |-> NoDoc]

IdleWorker ==
    [pc |-> "idle", op |-> "none", job_id |-> None, doc |-> NoDoc, doc_id |-> None,
     t |-> 0, job |-> NoDoc, prev |-> "none", out |-> NoDoc, ret |-> NoReturn,
     n_sub |-> 0, n_chg |-> 0, n_ev |-> 0]

\* the id under which the document of a request would be stored
SubmittedId(op, job_id, doc) ==
    IF op = "submit_evaluation" THEN doc.metadata.evaluation_id
    ELSE IF op = "submit_artifact" THEN doc.metadata.artifact_id
    ELSE job_id

\* the request is received
Begin(op, job_id, doc, t) ==
    [IdleWorker EXCEPT !.op = op, !.job_id = job_id, !.doc = doc,
                       !.doc_id = SubmittedId(op, job_id, doc), !.t = t]

\* JobStore.get returned `job`
Got(rec, job) == [rec EXCEPT !.job = job, !.prev = job.spec.status.state]

\* the handler returns `job` (kind = "ok") or raises `kind`; what is kept of the
\* request is its operation, its job_id, the id of its document, the time
\* it was received and the state it read
Done(rec, kind, job) ==
    [IdleWorker EXCEPT !.pc = "done", !.op = rec.op, !.job_id = rec.job_id,
                       !.doc_id = rec.doc_id, !.t = rec.t, !.prev = rec.prev,
                       !.ret = [kind |-> kind, job |-> job],
                       !.n_sub = rec.n_sub, !.n_chg = rec.n_chg, !.n_ev = rec.n_ev]

\* the stored state of a job, "absent" when there is no row
StoredState(table, job_id) ==
    IF HasRow(table, job_id) THEN table[job_id].state ELSE "absent"

\* 1 when the write of `job` changed the state stored under its id
Changes(before, after, job) ==
    IF StoredState(before, job.metadata.job_id) # StoredState(after, job.metadata.job_id)
    THEN 1 ELSE 0

CanBegin(w) == wk[w].pc = "idle" /\ Len(events) + 2 <= budget.events

\* The clock is read by utcnow() when a request is received and a second
\* time by run_job before it defers: it advances between requests and before
\* that second reading.
Tick ==
    /\ now < budget.ticks * TickStep
    /\ \A w \in Workers : wk[w].pc \in {"idle", "run_update_waiting"}
    /\ now' = now + TickStep
    /\ UNCHANGED <<jobs, events, artifacts, evaluations, cfg, budget, wk, sm>>

\* the response is sent
Return(w) ==
    /\ wk[w].pc = "done"
    /\ wk' = [wk EXCEPT ![w] = IdleWorker]
    /\ UNCHANGED <<now, jobs, events, artifacts, evaluations, cfg, budget, sm>>

\* JobStore.record_event by worker w, then `next` (a worker record)
AppendEvent(w, event_type, details, next) ==
    /\ events' = record_event(events, now, wk[w].job.metadata.org_id,
                              wk[w].job.metadata.job_id, event_type, details)
    /\ wk' = [wk EXCEPT ![w] = [next EXCEPT !.n_ev = @ + 1]]
    /\ UNCHANGED <<now, jobs, artifacts, evaluations, cfg, budget, sm>>

\* JobStore.update(doc) by worker w, then pc = nextpc
UpdateJob(w, doc, nextpc) ==
    /\ LET r == JobStore_update(jobs, doc)
       IN  /\ jobs' = r.table
           /\ wk' = [wk EXCEPT ![w] =
                       IF r.err = "ok"
                       THEN [wk[w] EXCEPT !.pc = nextpc, !.out = doc,
                                          !.n_chg = @ + Changes(jobs, r.table, doc)]
                       ELSE Done(wk[w], r.err, NoDoc)]
    /\ UNCHANGED <<now, events, artifacts, evaluations, cfg, budget, sm>>

-----------------------------------------------------------------------------
(* executor/engine.py: JobEngine *)

\* submit_job up to and including JobStore.create, which alone raises a
\* conflict
SubmitJobOutcome(job, conforms, t) ==
    LET org_id == job.metadata.org_id
        limits == LimitsConfig(cfg.require_known_org)
    IN  IF validate("JobContract", job, conforms) # "ok" THEN "SchemaValidationError"
        ELSE IF enforce_job_contract_submission_shape(job) # "ok"
        THEN "PolicyViolationError"
        ELSE IF enforce_job_contract_limits(job, limits, t) # "ok"
        THEN "PolicyViolationError"
        ELSE IF limits.require_known_org /\ ~has_org(org_id) THEN "PolicyViolationError"
        ELSE IF has_org(org_id) /\ enforce_job_within_org_policy(job, get_org(org_id)) # "ok"
        THEN "PolicyViolationError"
        ELSE JobStore_create(jobs, job).err

SubmitJob(w, job, conforms) ==
    /\ CanBegin(w)
    /\ LET rec == Begin("submit_job", job.metadata.job_id, job, now)
           outcome == SubmitJobOutcome(job, conforms, now)
       IN  /\ jobs' = IF outcome \in {"ok", "ConflictError"}
                       THEN JobStore_create(jobs, job).table
                       ELSE jobs
           /\ wk' = [wk EXCEPT ![w] =
                       IF outcome = "ok"
                       THEN [rec EXCEPT !.pc = "submit_job_event", !.job = job,
                                        !.n_sub = 1]
                       ELSE Done(rec, outcome, NoDoc)]
    /\ UNCHANGED <<now, events, artifacts, evaluations, cfg, budget, sm>>

SubmitJobEvent(w) ==
    /\ wk[w].pc = "submit_job_event"
    /\ AppendEvent(w, "job_submitted", [state |-> "created"],
                   Done(wk[w], "ok", wk[w].job))

GetJob(w, job_id) ==
    /\ wk[w].pc = "idle"
    /\ wk' = [wk EXCEPT ![w] =
                IF HasRow(jobs, job_id)
                THEN Done(Begin("get_job", job_id, NoDoc, now), "ok", StoredGet(job_id))
                ELSE Done(Begin("get_job", job_id, NoDoc, now), "NotFoundError", NoDoc)]
    /\ UNCHANGED <<now, jobs, events, artifacts, evaluations, cfg, budget, sm>>

\* variant: a job is expired only after expires_at has passed
ExpiresAtPassed(job, t) == parse_rfc3339(job.spec.timestamps.expires_at) < t

\* run_job, lines 78-80: expires_at <= now
ExpiresAtReached(job, t) == parse_rfc3339(job.spec.timestamps.expires_at) <= t

\* run_job from JobStore.get to the first store call after it
\* variant: the limits of the org are enforced for no org
OrgLimitsApply_never(org_id) == FALSE

\* line 92: the limits of the org are enforced when the registry has the org
OrgLimitsApply(org_id) == has_org(org_id)

RunJobGet(w, job_id) ==
    /\ CanBegin(w)
    /\ LET rec == Begin("run_job", job_id, NoDoc, now)
       IN  wk' = [wk EXCEPT ![w] =
             IF ~HasRow(jobs, job_id) THEN Done(rec, "NotFoundError", NoDoc)
             ELSE
             LET job == StoredGet(job_id)
                 got == Got(rec, job)
                 org_id == job.metadata.org_id
                 state == job.spec.status.state
             IN  IF ExpiresAtReached(job, now)
                 THEN LET r == apply_transition(job, ExpiryRequest(now))
                      IN  IF r.kind # "ok" THEN Done(got, r.kind, NoDoc)
                          ELSE [got EXCEPT !.pc = "run_expire_update"]
                 ELSE IF state \notin {"created", "waiting"}
                 THEN Done(got, "ConflictError", NoDoc)
                 ELSE IF ~OrgLimitsApply(org_id)
                 THEN [got EXCEPT !.pc = "run_update_running"]
                 ELSE IF get_org(org_id).spec.execution_limits.concurrency.max_active_jobs <= 0
                 THEN Done(got, "PolicyViolationError", NoDoc)
                 ELSE [got EXCEPT !.pc = "run_count_active"]]
    /\ UNCHANGED <<now, jobs, events, artifacts, evaluations, cfg, budget, sm>>

RunJobExpireUpdate(w) ==
    /\ wk[w].pc = "run_expire_update"
    /\ UpdateJob(w, apply_transition(wk[w].job, ExpiryRequest(wk[w].t)).job,
                 "run_expire_event")

RunJobExpireEvent(w) ==
    /\ wk[w].pc = "run_expire_event"
    /\ AppendEvent(w, "job_expired", [reason |-> "expires_at_reached"],
                   Done(wk[w], "ok", wk[w].out))

\* JobStore.count_active_by_org and the concurrency gate
RunJobCountActive(w) ==
    /\ wk[w].pc = "run_count_active"
    /\ LET job == wk[w].job
           org_exec == get_org(job.metadata.org_id).spec.execution_limits
           max_active_jobs == org_exec.concurrency.max_active_jobs
           max_starts == org_exec.rate_limits.max_job_starts_per_minute
           state == job.spec.status.state
           active == count_active_by_org(jobs, job.metadata.org_id)
       IN  wk' = [wk EXCEPT ![w] =
             IF state = "created" /\ active >= max_active_jobs
             THEN Done(wk[w], "PolicyViolationError", NoDoc)
             ELSE IF state = "waiting" /\ active > max_active_jobs
             THEN Done(wk[w], "PolicyViolationError", NoDoc)
             ELSE IF max_starts <= 0 THEN Done(wk[w], "PolicyViolationError", NoDoc)
             ELSE [wk[w] EXCEPT !.pc = "run_count_events"]]
    /\ UNCHANGED <<now, jobs, events, artifacts, evaluations, cfg, budget, sm>>

\* JobStore.count_events_since and the rate gate
RunJobCountEvents(w) ==
    /\ wk[w].pc = "run_count_events"
    /\ LET job == wk[w].job
           org_exec == get_org(job.metadata.org_id).spec.execution_limits
           max_starts == org_exec.rate_limits.max_job_starts_per_minute
           since == wk[w].t - timedelta(RateWindowSeconds)
           starts == count_events_since(events, job.metadata.org_id, "job_started", since)
       IN  wk' = [wk EXCEPT ![w] =
             IF starts >= max_starts THEN Done(wk[w], "PolicyViolationError", NoDoc)
             ELSE [wk[w] EXCEPT !.pc = "run_update_running"]]
    /\ UNCHANGED <<now, jobs, events, artifacts, evaluations, cfg, budget, sm>>

RunJobUpdateRunning(w) ==
    /\ wk[w].pc = "run_update_running"
    /\ UpdateJob(w, apply_transition(wk[w].job, PlainRequest("running", wk[w].t)).job,
                 "run_event_started")

RunJobEventStarted(w) ==
    /\ wk[w].pc = "run_event_started"
    /\ AppendEvent(w, "job_started",
                   [previous_state |-> wk[w].job.spec.status.state],
                   IF cfg.execution_deferred
                   THEN [wk[w] EXCEPT !.pc = "run_update_waiting"]
                   ELSE Done(wk[w], "ok", wk[w].out))

\* variant: the deferral is recorded but the waiting document is not stored
RunJobUpdateWaiting_not_stored(w) ==
    /\ wk[w].pc = "run_update_waiting"
    /\ wk' = [wk EXCEPT ![w] =
                [wk[w] EXCEPT !.pc = "run_event_deferred",
                              !.out = apply_transition(wk[w].out,
                                                       PlainRequest("waiting", now)).job]]
    /\ UNCHANGED <<now, jobs, events, artifacts, evaluations, cfg, budget, sm>>

\* the second utcnow() of run_job is read here
RunJobUpdateWaiting(w) ==
    /\ wk[w].pc = "run_update_waiting"
    /\ UpdateJob(w, apply_transition(wk[w].out, PlainRequest("waiting", now)).job,
                 "run_event_deferred")

RunJobEventDeferred(w) ==
    /\ wk[w].pc = "run_event_deferred"
    /\ AppendEvent(w, "execution_deferred",
                   [reason |-> "agent_execution_not_implemented", build_mode |-> TRUE],
                   Done(wk[w], "ok", wk[w].out))

StopJobGet(w, job_id) ==
    /\ CanBegin(w)
    /\ LET rec == Begin("stop_job", job_id, NoDoc, now)
       IN  wk' = [wk EXCEPT ![w] =
             IF ~HasRow(jobs, job_id) THEN Done(rec, "NotFoundError", NoDoc)
             ELSE
             LET job == StoredGet(job_id)
                 got == Got(rec, job)
                 state == job.spec.status.state
             IN  IF state \in {"completed", "failed", "expired"}
                 THEN Done(got, "ConflictError", NoDoc)
                 ELSE IF state = "waiting" THEN Done(got, "ok", job)
                 ELSE IF state # "running" THEN Done(got, "ConflictError", NoDoc)
                 ELSE [got EXCEPT !.pc = "stop_update"]]
    /\ UNCHANGED <<now, jobs, events, artifacts, evaluations, cfg, budget, sm>>

\* variant: the stop is recorded but the waiting document is not stored
StopJobUpdate_not_stored(w) ==
    /\ wk[w].pc = "stop_update"
    /\ wk' = [wk EXCEPT ![w] =
                [wk[w] EXCEPT !.pc = "stop_event",
                              !.out = apply_transition(wk[w].job,
                                          TransitionRequest("waiting", wk[w].t, None, None,
                                                            None, None, "manual_stop")).job]]
    /\ UNCHANGED <<now, jobs, events, artifacts, evaluations, cfg, budget, sm>>

StopJobUpdate(w) ==
    /\ wk[w].pc = "stop_update"
    /\ UpdateJob(w,
                 apply_transition(wk[w].job,
                     TransitionRequest("waiting", wk[w].t, None, None, None, None,
                                       "manual_stop")).job,
                 "stop_event")

StopJobEvent(w) ==
    /\ wk[w].pc = "stop_event"
    /\ AppendEvent(w, "job_stopped", [to_state |-> "waiting"],
                   Done(wk[w], "ok", wk[w].out))

-----------------------------------------------------------------------------
(* api/main.py: submit_artifact *)

\* variant: the artifact_type is not compared with the org's allowed_types
_enforce_artifact_policy_any_type(artifact, job) ==
    LET org_id == artifact.metadata.org_id
        producing_agent_id == artifact.spec.produced_by.agent_id
        state == job.spec.status.state
    IN  IF job.metadata.org_id # org_id THEN "PolicyViolationError"
        ELSE IF state \in {"completed", "failed", "expired"} THEN "ConflictError"
        ELSE IF ~has_org(org_id) THEN "PolicyViolationError"
        ELSE IF producing_agent_id # "" /\
                producing_agent_id \notin included_agent_ids_for_org(org_id)
        THEN "PolicyViolationError"
        ELSE "ok"

\* _enforce_artifact_policy, given the job document that engine.get_job returned
_enforce_artifact_policy(artifact, job) ==
    LET org_id == artifact.metadata.org_id
        artifact_type == artifact.metadata.artifact_type
        producing_agent_id == artifact.spec.produced_by.agent_id
        state == job.spec.status.state
    IN  IF job.metadata.org_id # org_id THEN "PolicyViolationError"
        ELSE IF state \in {"completed", "failed", "expired"} THEN "ConflictError"
        ELSE IF ~has_org(org_id) THEN "PolicyViolationError"
        ELSE IF artifact_type \notin
                  {x.type_id : x \in Range(get_org(org_id).spec.artifact_policy.allowed_types)}
        THEN "PolicyViolationError"
        ELSE IF producing_agent_id # "" /\
                producing_agent_id \notin included_agent_ids_for_org(org_id)
        THEN "PolicyViolationError"
        ELSE "ok"

\* submit_artifact up to the call of ArtifactStore.append
SubmitArtifactGet(w, artifact, conforms) ==
    /\ CanBegin(w)
    /\ LET job_id == artifact.spec.job_ref.job_id
           rec == Begin("submit_artifact", job_id, artifact, now)
       IN  wk' = [wk EXCEPT ![w] =
             IF validate("Artifact", artifact, conforms) # "ok"
             THEN Done(rec, "SchemaValidationError", NoDoc)
             ELSE IF ~HasRow(jobs, job_id) THEN Done(rec, "NotFoundError", NoDoc)
             ELSE LET job == StoredGet(job_id)
                      verdict == _enforce_artifact_policy(artifact, job)
                  IN  IF verdict # "ok" THEN Done(Got(rec, job), verdict, NoDoc)
                      ELSE [Got(rec, job) EXCEPT !.pc = "artifact_append"]]
    /\ UNCHANGED <<now, jobs, events, artifacts, evaluations, cfg, budget, sm>>

SubmitArtifactAppend(w) ==
    /\ wk[w].pc = "artifact_append"
    /\ LET r == ArtifactStore_append(artifacts, wk[w].doc)
       IN  /\ artifacts' = r.table
           /\ wk' = [wk EXCEPT ![w] =
                       IF r.err # "ok" THEN Done(wk[w], r.err, NoDoc)
                       ELSE Done([wk[w] EXCEPT !.n_sub = @ + 1], "ok", wk[w].job)]
    /\ UNCHANGED <<now, jobs, events, evaluations, cfg, budget, sm>>

-----------------------------------------------------------------------------
(* evaluator/service.py: EvaluationService.submit *)

\* variant: the reference is the bare evaluation id
_evaluation_ref_bare(evaluation_id) == evaluation_id

_evaluation_ref(evaluation_id) == "evaluations/" \o evaluation_id

\* lines 67-95: evaluator identity, authority and self-evaluation
\* variant: the artifact decisions are not looked at
EvaluatorVerdict_no_self_check(evaluation) ==
    LET org_id == evaluation.metadata.org_id
        evaluator == evaluation.spec.evaluator
        actor_id == evaluator.actor_id
    IN  IF evaluator.actor_type # "agent" THEN "ok"
        ELSE IF ~has_agent(actor_id) THEN "PolicyViolationError"
        ELSE IF get_agent(actor_id).spec.authority.level # evaluator.authority_level
        THEN "PolicyViolationError"
        ELSE IF ~has_org(org_id) THEN "PolicyViolationError"
        ELSE IF actor_id \notin included_agent_ids_for_org(org_id)
        THEN "PolicyViolationError"
        ELSE "ok"

EvaluatorVerdict(evaluation) ==
    LET org_id == evaluation.metadata.org_id
        evaluator == evaluation.spec.evaluator
        actor_id == evaluator.actor_id
    IN  IF evaluator.actor_type # "agent" THEN "ok"
        ELSE IF ~has_agent(actor_id) THEN "PolicyViolationError"
        ELSE IF get_agent(actor_id).spec.authority.level # evaluator.authority_level
        THEN "PolicyViolationError"
        ELSE IF ~has_org(org_id) THEN "PolicyViolationError"
        ELSE IF actor_id \notin included_agent_ids_for_org(org_id)
        THEN "PolicyViolationError"
        ELSE IF \E d \in Range(evaluation.spec.artifact_decisions) :
                   d.producing_agent_id # "" /\ d.producing_agent_id = actor_id
        THEN "PolicyViolationError"
        ELSE "ok"

\* variant: the failed branch carries the stop condition of the completed one
EvaluationTransition_same_stop(evaluation, job, t) ==
    LET desired == evaluation.spec.outcome.next_job_state
        final_ref == _evaluation_ref(evaluation.metadata.evaluation_id)
    IN  IF desired = "completed"
        THEN apply_transition(job,
                 TransitionRequest("completed", t, final_ref, None, None, None,
                                   "evaluation_passed"))
        ELSE IF desired = "failed"
        THEN apply_transition(job,
                 TransitionRequest("failed", t, final_ref, "evaluation_failure", None,
                                   None, "evaluation_passed"))
        ELSE IF desired \in {"running", "waiting"}
        THEN apply_transition(job, PlainRequest(desired, t))
        ELSE Raised("PolicyViolationError", job)

\* lines 97-120: the transition that the evaluation decides
EvaluationTransition(evaluation, job, t) ==
    LET desired == evaluation.spec.outcome.next_job_state
        final_ref == _evaluation_ref(evaluation.metadata.evaluation_id)
    IN  IF desired = "completed"
        THEN apply_transition(job,
                 TransitionRequest("completed", t, final_ref, None, None, None,
                                   "evaluation_passed"))
        ELSE IF desired = "failed"
        THEN apply_transition(job,
                 TransitionRequest("failed", t, final_ref, "evaluation_failure", None,
                                   None, "evaluation_failed"))
        ELSE IF desired \in {"running", "waiting"}
        THEN apply_transition(job, PlainRequest(desired, t))
        ELSE Raised("PolicyViolationError", job)

\* variant: the org of the evaluation is not compared with the org of the job
EvaluationOrgUnchecked(evaluation, job) == TRUE

\* lines 49-52: the evaluation and the job belong to the same org
EvaluationOrgMatches(evaluation, job) ==
    job.metadata.org_id = evaluation.metadata.org_id

\* variant: the job is expired only after expires_at has passed
EvaluationJobExpiredLate(job, t) ==
    /\ parse_rfc3339(job.spec.timestamps.expires_at) < t
    /\ ~is_terminal(job.spec.status.state)

\* lines 59-60: expires_at <= now and the job is not terminal
EvaluationJobExpired(job, t) ==
    /\ parse_rfc3339(job.spec.timestamps.expires_at) <= t
    /\ ~is_terminal(job.spec.status.state)

\* submit up to the first store write
SubmitEvaluationGet(w, evaluation, conforms) ==
    /\ CanBegin(w)
    /\ LET job_id == evaluation.spec.job_ref.job_id
           rec == Begin("submit_evaluation", job_id, evaluation, now)
       IN  wk' = [wk EXCEPT ![w] =
             IF validate("Evaluation", evaluation, conforms) # "ok"
             THEN Done(rec, "SchemaValidationError", NoDoc)
             ELSE IF ~HasRow(jobs, job_id) THEN Done(rec, "NotFoundError", NoDoc)
             ELSE
             LET job == StoredGet(job_id)
                 got == Got(rec, job)
                 current == job.spec.status.state
             IN  IF ~EvaluationOrgMatches(evaluation, job)
                 THEN Done(got, "PolicyViolationError", NoDoc)
                 ELSE IF is_terminal(current) THEN Done(got, "ConflictError", NoDoc)
                 ELSE IF EvaluationJobExpired(job, now)
                 THEN LET r == apply_transition(job, ExpiryRequest(now))
                      IN  IF r.kind # "ok" THEN Done(got, r.kind, NoDoc)
                          ELSE [got EXCEPT !.pc = "eval_expire_update", !.doc = NoDoc]
                 ELSE IF EvaluatorVerdict(evaluation) # "ok"
                 THEN Done(got, "PolicyViolationError", NoDoc)
                 ELSE LET r == EvaluationTransition(evaluation, job, now)
                      IN  IF r.kind # "ok" THEN Done(got, r.kind, NoDoc)
                          ELSE [got EXCEPT !.pc = "eval_append", !.out = r.job]]
    /\ UNCHANGED <<now, jobs, events, artifacts, evaluations, cfg, budget, sm>>

\* variant: the expired document is not stored
EvalExpireUpdate_not_stored(w) ==
    /\ wk[w].pc = "eval_expire_update"
    /\ wk' = [wk EXCEPT ![w] =
                [wk[w] EXCEPT !.pc = "eval_expire_event",
                              !.out = apply_transition(wk[w].job,
                                                       ExpiryRequest(wk[w].t)).job]]
    /\ UNCHANGED <<now, jobs, events, artifacts, evaluations, cfg, budget, sm>>

EvalExpireUpdate(w) ==
    /\ wk[w].pc = "eval_expire_update"
    /\ UpdateJob(w, apply_transition(wk[w].job, ExpiryRequest(wk[w].t)).job,
                 "eval_expire_event")

EvalExpireEvent(w) ==
    /\ wk[w].pc = "eval_expire_event"
    /\ AppendEvent(w, "job_expired", [reason |-> "expires_at_reached"],
                   Done(wk[w], "ConflictError", NoDoc))

EvalAppend(w) ==
    /\ wk[w].pc = "eval_append"
    /\ LET r == EvaluationStore_append(evaluations, wk[w].doc)
       IN  /\ evaluations' = r.table
           /\ wk' = [wk EXCEPT ![w] =
                       IF r.err # "ok" THEN Done(wk[w], r.err, NoDoc)
                       ELSE [wk[w] EXCEPT !.pc = "eval_event_submitted", !.n_sub = @ + 1]]
    /\ UNCHANGED <<now, jobs, events, artifacts, cfg, budget, sm>>

EvalEventSubmitted(w) ==
    /\ wk[w].pc = "eval_event_submitted"
    /\ AppendEvent(w, "evaluation_submitted",
                   [evaluation_id |-> wk[w].doc.metadata.evaluation_id],
                   [wk[w] EXCEPT !.pc = "eval_update"])

\* variant: the state change is recorded but the document is not stored
EvalUpdate_not_stored(w) ==
    /\ wk[w].pc = "eval_update"
    /\ wk' = [wk EXCEPT ![w] = [wk[w] EXCEPT !.pc = "eval_event_changed"]]
    /\ UNCHANGED <<now, jobs, events, artifacts, evaluations, cfg, budget, sm>>

EvalUpdate(w) ==
    /\ wk[w].pc = "eval_update"
    /\ UpdateJob(w, wk[w].out, "eval_event_changed")

EvalEventChanged(w) ==
    /\ wk[w].pc = "eval_event_changed"
    /\ AppendEvent(w, "job_state_changed",
                   [from |-> wk[w].job.spec.status.state,
                    to |-> wk[w].doc.spec.outcome.next_job_state],
                   Done(wk[w], "ok", wk[w].out))

-----------------------------------------------------------------------------
(* The service: requests served one after another *)

SMOff == [pc |-> "off", job |-> NoDoc, req |-> PlainRequest("created", 0),
          res |-> Raised("none", NoDoc)]

Init ==
    /\ now = 0
    /\ jobs = [j \in JobIds |-> NoRow]
    /\ events = <<>>
    /\ artifacts = [a \in ArtifactIds |-> NoRow]
    /\ evaluations = [e \in EvaluationIds |-> NoRow]
    /\ cfg \in [execution_deferred : BOOLEAN, require_known_org : BOOLEAN]
    /\ budget = [events |-> MaxEvents, ticks |-> MaxTicks]
    /\ wk = [w \in Workers |-> IdleWorker]
    /\ sm = SMOff

Step(w) ==
    \/ \E job \in JobInputs, conforms \in BOOLEAN : SubmitJob(w, job, conforms)
    \/ SubmitJobEvent(w)
    \/ \E job_id \in JobIds : GetJob(w, job_id)
    \/ \E job_id \in JobIds : RunJobGet(w, job_id)
    \/ RunJobExpireUpdate(w)
    \/ RunJobExpireEvent(w)
    \/ RunJobCountActive(w)
    \/ RunJobCountEvents(w)
    \/ RunJobUpdateRunning(w)
    \/ RunJobEventStarted(w)
    \/ RunJobUpdateWaiting(w)
    \/ RunJobEventDeferred(w)
    \/ \E job_id \in JobIds : StopJobGet(w, job_id)
    \/ StopJobUpdate(w)
    \/ StopJobEvent(w)
    \/ \E artifact \in ArtifactInputs, conforms \in BOOLEAN :
          SubmitArtifactGet(w, artifact, conforms)
    \/ SubmitArtifactAppend(w)
    \/ \E evaluation \in EvaluationInputs, conforms \in BOOLEAN :
          SubmitEvaluationGet(w, evaluation, conforms)
    \/ EvalExpireUpdate(w)
    \/ EvalExpireEvent(w)
    \/ EvalAppend(w)
    \/ EvalEventSubmitted(w)
    \/ EvalUpdate(w)
    \/ EvalEventChanged(w)
    \/ Return(w)

Next == Tick \/ \E w \in SeqWorkers : Step(w)

Spec == Init /\ [][Next]_vars

-----------------------------------------------------------------------------
(* The gates of run_job: requests served one after another, with jobs that *)
(* outlive the rate window, an org whose execution is disabled, and a      *)
(* clock that is also read between whole seconds.                          *)

\* the clock stops GateMaxTicks half windows after the start
GateMaxTicks == 3

\* no request is started once the event log holds more than GateMaxEvents - 2 rows
GateMaxEvents == 8

\* jobs that expire just after 00:01:00Z: two of orgA, and j2 also as a
\* job of orgZ
GateJobInputs ==
    {JobContract(j, "orgA", [local |-> 0, zone |-> "Z"],
                 [local |-> timedelta(RateWindowSeconds) + 1, zone |-> "Z"], 1,
                 CreatedStatus) : j \in JobIds}
    \cup {JobContract("j2", "orgZ", [local |-> 0, zone |-> "Z"],
                      [local |-> timedelta(RateWindowSeconds) + 1, zone |-> "Z"], 1,
                      CreatedStatus)}

\* a human decides that j2 runs or waits
GateEvaluationInputs ==
    {Evaluation("e1", o, "j2", Evaluator("human", "alice", "senior"), <<>>, n) :
        o \in {"orgA", "orgZ"}, n \in {"running", "waiting"}}

InitGate ==
    /\ now = 0
    /\ jobs = [j \in JobIds |-> NoRow]
    /\ events = <<>>
    /\ artifacts = [a \in ArtifactIds |-> NoRow]
    /\ evaluations = [e \in EvaluationIds |-> NoRow]
    /\ cfg = [execution_deferred |-> TRUE, require_known_org |-> TRUE]
    /\ budget = [events |-> GateMaxEvents, ticks |-> GateMaxTicks]
    /\ wk = [w \in Workers |-> IdleWorker]
    /\ sm = SMOff

\* The clock is read at a whole second and a fraction of a second later,
\* one rate window apart: 00:00:00, 00:00:00.5, 00:01:00, 00:01:00.5, ...
TickGate ==
    /\ \A w \in Workers : wk[w].pc \in {"idle", "run_update_waiting"}
    /\ now' = IF microsecond(now) = 0 THEN now + 1
              ELSE now + timedelta(RateWindowSeconds) - 1
    /\ now' <= budget.ticks * TickStep
    /\ UNCHANGED <<jobs, events, artifacts, evaluations, cfg, budget, wk, sm>>

StepGate(w) ==
    \/ \E job \in GateJobInputs : SubmitJob(w, job, TRUE)
    \/ SubmitJobEvent(w)
    \/ \E job_id \in JobIds : RunJobGet(w, job_id)
    \/ RunJobExpireUpdate(w)
    \/ RunJobExpireEvent(w)
    \/ RunJobCountActive(w)
    \/ RunJobCountEvents(w)
    \/ RunJobUpdateRunning(w)
    \/ RunJobEventStarted(w)
    \/ RunJobUpdateWaiting(w)
    \/ RunJobEventDeferred(w)
    \/ \E evaluation \in GateEvaluationInputs : SubmitEvaluationGet(w, evaluation, TRUE)
    \/ EvalExpireUpdate(w)
    \/ EvalExpireEvent(w)
    \/ EvalAppend(w)
    \/ EvalEventSubmitted(w)
    \/ EvalUpdate(w)
    \/ EvalEventChanged(w)
    \/ Return(w)

NextGate == TickGate \/ \E w \in SeqWorkers : StepGate(w)

SpecGate == InitGate /\ [][NextGate]_vars

-----------------------------------------------------------------------------
(* Two workers serve requests at the same time: the store calls of their   *)
(* handlers interleave.  Execution is not deferred.                        *)

\* the clock stops after RaceMaxTicks ticks
RaceMaxTicks == 2

\* no request is started once the event log holds more than RaceMaxEvents - 2 rows
RaceMaxEvents == 4

\* two jobs of orgA
RaceJobInputs ==
    {JobContract(j, "orgA", [local |-> 0, zone |-> "Z"], ExpiresAtOf(j), 1, CreatedStatus) :
        j \in JobIds}

\* a human decides that j1 runs or is completed
RaceEvaluationInputs ==
    {Evaluation("e1", "orgA", "j1", Evaluator("human", "alice", "senior"), <<>>, n) :
        n \in {"running", "completed"}}

InitRace ==
    /\ now = 0
    /\ jobs = [j \in JobIds |-> NoRow]
    /\ events = <<>>
    /\ artifacts = [a \in ArtifactIds |-> NoRow]
    /\ evaluations = [e \in EvaluationIds |-> NoRow]
    /\ cfg = [execution_deferred |-> FALSE, require_known_org |-> TRUE]
    /\ budget = [events |-> RaceMaxEvents, ticks |-> RaceMaxTicks]
    /\ wk = [w \in Workers |-> IdleWorker]
    /\ sm = SMOff

\* the clock advances whatever the workers are doing
TickAny ==
    /\ now < budget.ticks * TickStep
    /\ now' = now + TickStep
    /\ UNCHANGED <<jobs, events, artifacts, evaluations, cfg, budget, wk, sm>>

\* submit_job and run_job
StepRace(w) ==
    \/ \E job \in RaceJobInputs : SubmitJob(w, job, TRUE)
    \/ SubmitJobEvent(w)
    \/ \E job_id \in JobIds : RunJobGet(w, job_id)
    \/ RunJobExpireUpdate(w)
    \/ RunJobExpireEvent(w)
    \/ RunJobCountActive(w)
    \/ RunJobCountEvents(w)
    \/ RunJobUpdateRunning(w)
    \/ RunJobEventStarted(w)
    \/ Return(w)

NextRace == TickAny \/ \E w \in Workers : StepRace(w)

SpecRace == InitRace /\ [][NextRace]_vars

\* submit_job, run_job and submit_evaluation
StepExpiry(w) ==
    \/ StepRace(w)
    \/ \E evaluation \in RaceEvaluationInputs : SubmitEvaluationGet(w, evaluation, TRUE)
    \/ EvalExpireUpdate(w)
    \/ EvalExpireEvent(w)
    \/ EvalAppend(w)
    \/ EvalEventSubmitted(w)
    \/ EvalUpdate(w)
    \/ EvalEventChanged(w)

\* the clock advances between requests: every request that is served once
\* the expires_at of a job is reached finds it reached
NextExpiry == Tick \/ \E w \in Workers : StepExpiry(w)

SpecExpiry == InitRace /\ [][NextExpiry]_vars

-----------------------------------------------------------------------------
(* Requests served one after another, each one served to its end: a        *)
(* handler that has been entered runs on to its return.                    *)

\* every request of the API on the jobs of orgA
StepLazy(w) ==
    \/ StepExpiry(w)
    \/ \E evaluation \in EvaluationInputs, conforms \in BOOLEAN :
          SubmitEvaluationGet(w, evaluation, conforms)
    \/ \E job_id \in JobIds : GetJob(w, job_id)
    \/ \E job_id \in JobIds : StopJobGet(w, job_id)
    \/ StopJobUpdate(w)
    \/ StopJobEvent(w)
    \/ \E artifact \in ArtifactInputs : SubmitArtifactGet(w, artifact, TRUE)
    \/ SubmitArtifactAppend(w)

\* the steps of a request that has been entered, up to its return
RunsOn == \E w \in SeqWorkers : wk[w].pc # "idle" /\ StepLazy(w)

NextLazy == Tick \/ \E w \in SeqWorkers : StepLazy(w)

SpecLazy == InitRace /\ [][NextLazy]_vars /\ WF_vars(RunsOn)

-----------------------------------------------------------------------------
(* The state machine function on its own: apply_transition applied to a    *)
(* job document and a request drawn from the sets below, and applied       *)
(* again to the document it returns.                                       *)

SMStatuses ==
    {[state |-> st, status_updated_at |-> format_rfc3339(0)] :
        st \in States \cup {"paused"}}
    \cup {[state |-> st, status_updated_at |-> format_rfc3339(0),
           started_at |-> format_rfc3339(0)] : st \in {"running", "waiting", "expired"}}
    \cup {[state |-> "completed", status_updated_at |-> format_rfc3339(0),
           final_evaluation_ref |-> "evaluations/e0",
           terminal_at |-> format_rfc3339(0)],
          [status_updated_at |-> format_rfc3339(0)],
          NotADict}

\* a document without spec.status
WithoutStatus(job) ==
    [job EXCEPT !.spec = [k \in (DOMAIN job.spec) \ {"status"} |-> job.spec[k]]]

SMJobs ==
    {JobContract("j1", o, format_rfc3339(0), ExpiresAtOf("j1"), 1, st) :
        o \in {"orgA", "orgU"}, st \in SMStatuses}
    \cup {WithoutStatus(JobContract("j1", "orgA", format_rfc3339(0), ExpiresAtOf("j1"),
                                    1, CreatedStatus))}

\* the optional fields of a request
SMOptionals ==
    {<<None, None, None, None, None>>,
     <<"evaluations/e1", None, None, None, None>>,
     <<"evaluations/e1", "evaluation_failure", None, None, "evaluation_failed">>,
     <<"evaluations/e1", "evaluation_failure", "oom", None, None>>,
     <<"", "evaluation_failure", None, None, None>>,
     <<"evaluations/e1", "", None, None, None>>,
     <<None, None, None, "expires_at_reached", None>>,
     <<None, None, None, "", "manual_stop">>,
     <<None, None, None, None, "manual_stop">>}

SMRequests ==
    {TransitionRequest(st, t, o[1], o[2], o[3], o[4], o[5]) :
        st \in States \cup {"paused"}, t \in {TickStep, 2 * TickStep}, o \in SMOptionals}

InitSM ==
    /\ now = 0
    /\ jobs = [j \in JobIds |-> NoRow]
    /\ events = <<>>
    /\ artifacts = [a \in ArtifactIds |-> NoRow]
    /\ evaluations = [e \in EvaluationIds |-> NoRow]
    /\ cfg = [execution_deferred |-> TRUE, require_known_org |-> TRUE]
    /\ budget = [events |-> MaxEvents, ticks |-> MaxTicks]
    /\ wk = [w \in Workers |-> IdleWorker]
    /\ \E job \in SMJobs, req \in SMRequests :
          sm = [pc |-> "ready", job |-> job, req |-> req, res |-> Raised("none", NoDoc)]

\* the call
SMApply ==
    /\ sm.pc = "ready"
    /\ sm' = [sm EXCEPT !.pc = "applied", !.res = apply_transition(sm.job, sm.req)]
    /\ UNCHANGED <<now, jobs, events, artifacts, evaluations, cfg, budget, wk>>

\* the returned document is the job of the next call
SMChain ==
    /\ sm.pc = "applied"
    /\ sm.res.kind = "ok"
    /\ \E req \in SMRequests :
          sm' = [pc |-> "ready", job |-> sm.res.job, req |-> req,
                 res |-> Raised("none", NoDoc)]
    /\ UNCHANGED <<now, jobs, events, artifacts, evaluations, cfg, budget, wk>>

NextSM == SMApply \/ SMChain

SpecSM == InitSM /\ [][NextSM]_vars

-----------------------------------------------------------------------------
(* The org policy function on its own: enforce_job_within_org_policy       *)
(* applied to a job and an org manifest drawn from the sets below.         *)

\* org manifests: the skill rule's default and the direct network policy
\* vary; "dual" is a skill id (and "mixed" a category) that the org both
\* allows and denies, "evil.org" a domain it allows and, in half of the
\* manifests, denies as well
PolicyOrgs ==
    {[OrganizationManifest("orgA", 1, 2) EXCEPT
        !.spec.skill_policy =
            [default_rule |-> d,
             allow |-> [skill_ids |-> <<"search", "dual">>,
                        skill_categories |-> <<"read", "mixed">>],
             deny |-> [skill_ids |-> <<"shell", "dual">>,
                       skill_categories |-> <<"exec", "mixed">>]],
        !.spec.external_access.direct_network =
            [policy |-> p,
             allowlist |-> [domains |-> <<"example.org", "evil.org">>,
                            urls |-> <<"https://example.org/a">>,
                            ip_cidrs |-> <<"10.0.0.0/8">>],
             denylist |-> [domains |-> deny, urls |-> <<>>, ip_cidrs |-> <<>>]]] :
        d \in {"allow", "deny"}, p \in {"deny_all", "allowlist", "allow_all"},
        deny \in {<<"evil.org">>, <<"bad.org">>}}

PolicySkillIds ==
    {<<>>, <<"search">>, <<"shell">>, <<"dual">>, <<"other">>, <<"search", "other">>}

PolicySkillCategories == {<<>>, <<"read">>, <<"exec">>, <<"mixed">>, <<"other">>}

PolicyDomains ==
    {<<>>, <<"example.org">>, <<"example.org", "evil.org">>,
     <<"example.org", "evil.org", "other.org">>, <<"other.org">>}

PolicyUrls == {<<>>, <<"https://example.org/a">>, <<"https://example.org/a", "https://other.org/">>}

PolicyIpCidrs == {<<>>, <<"10.0.0.0/8">>, <<"10.0.0.0/8", "192.168.0.0/16">>}

\* job contracts that differ in their permissions snapshot
PolicyJobs ==
    {[JobContract("j1", "orgA", format_rfc3339(0), ExpiresAtOf("j1"), 1, CreatedStatus) EXCEPT
        !.spec.permissions_snapshot.skills =
            [allowed_skill_ids |-> ids, allowed_skill_categories |-> cats],
        !.spec.permissions_snapshot.direct_external_network =
            [policy |-> p,
             allowlist |-> [domains |-> dom, urls |-> urls, ip_cidrs |-> ips]]] :
        ids \in PolicySkillIds, cats \in PolicySkillCategories,
        p \in {"deny_all", "allowlist", "allow_all"},
        dom \in PolicyDomains, urls \in PolicyUrls, ips \in PolicyIpCidrs}

InitPolicy ==
    /\ now = 0
    /\ jobs = [j \in JobIds |-> NoRow]
    /\ events = <<>>
    /\ artifacts = [a \in ArtifactIds |-> NoRow]
    /\ evaluations = [e \in EvaluationIds |-> NoRow]
    /\ cfg = [execution_deferred |-> TRUE, require_known_org |-> TRUE]
    /\ budget = [events |-> MaxEvents, ticks |-> MaxTicks]
    /\ wk = [w \in Workers |-> IdleWorker]
    /\ \E job \in PolicyJobs, org \in PolicyOrgs :
          sm = [pc |-> "policy_ready", job |-> job, org |-> org, res |-> "none"]

\* the call
PolicyApply ==
    /\ sm.pc = "policy_ready"
    /\ sm' = [sm EXCEPT !.pc = "policy_applied",
                        !.res = enforce_job_within_org_policy(sm.job, sm.org)]
    /\ UNCHANGED <<now, jobs, events, artifacts, evaluations, cfg, budget, wk>>

NextPolicy == PolicyApply

SpecPolicy == InitPolicy /\ [][NextPolicy]_vars

-----------------------------------------------------------------------------
(* The service when a store call can fail.  Every store method opens its   *)
(* own connection in autocommit mode (sqlite.py, SQLiteDatabase.connect,   *)
(* isolation_level=None) and the handlers call the stores one after the    *)
(* other without a transaction or an exception handler around them: a call *)
(* that raises sqlite3.OperationalError ends the request, and what the     *)
(* earlier calls of the request wrote stays written.                       *)

\* at most MaxFails store calls fail
MaxFails == 1

InitFail ==
    /\ now = 0
    /\ jobs = [j \in JobIds |-> NoRow]
    /\ events = <<>>
    /\ artifacts = [a \in ArtifactIds |-> NoRow]
    /\ evaluations = [e \in EvaluationIds |-> NoRow]
    /\ cfg = [execution_deferred |-> TRUE, require_known_org |-> TRUE]
    /\ budget = [events |-> MaxEvents, ticks |-> MaxTicks, fails |-> MaxFails]
    /\ wk = [w \in Workers |-> IdleWorker]
    /\ sm = SMOff

\* the store call that worker w is about to make raises
StoreCallFails(w) ==
    /\ wk[w].pc \notin {"idle", "done"}
    /\ budget.fails > 0
    /\ budget' = [budget EXCEPT !.fails = @ - 1]
    /\ wk' = [wk EXCEPT ![w] = Done(wk[w], "OperationalError", NoDoc)]
    /\ UNCHANGED <<now, jobs, events, artifacts, evaluations, cfg, sm>>

NextFail == Next \/ \E w \in SeqWorkers : StoreCallFails(w)

SpecFail == InitFail /\ [][NextFail]_vars

-----------------------------------------------------------------------------
(* Properties of apply_transition, read off the call recorded in sm *)

\* the value of an optional status field, None when the field is not there
StatusField(status, k) == IF k \in DOMAIN status THEN status[k] ELSE None

\* the call was made on a job whose spec.status.state is `from`
AppliedFrom(from) ==
    /\ sm.pc = "applied"
    /\ HasStatusState(sm.job)
    /\ sm.job.spec.status.state = from

\* C2 as stated: on a job whose state is completed, failed or expired,
\* apply_transition raises a conflict for every request, a request for the
\* state the job is already in included.
C2_ConflictForAnyRequest ==
    \A from \in {"completed", "failed", "expired"} :
        AppliedFrom(from) => sm.res.kind = "ConflictError"

\* C2 amended: on a job whose state is completed, failed or expired,
\* apply_transition raises a conflict for every request whose new_state
\* differs from that state; a request for the same state returns the job
\* as it was given.
C2_ConflictUnlessSameState ==
    \A from \in {"completed", "failed", "expired"} :
        AppliedFrom(from) =>
            IF sm.req.new_state = from
            THEN sm.res.kind = "ok" /\ sm.res.job = sm.job
            ELSE sm.res.kind = "ConflictError"

\* a completed job was asked to expire and the call raised a conflict
C2_Witness ==
    /\ AppliedFrom("completed")
    /\ sm.req.new_state = "expired"
    /\ sm.res.kind = "ConflictError"

\* C3: from created, running or waiting the admitted moves are exactly
\* created -> running | waiting | completed | failed | expired,
\* running -> waiting | completed | failed | expired and
\* waiting -> running | completed | failed | expired: an admitted move gets
\* past the transition check and, when it returns, returns the job in the
\* requested state; a request for the current state returns the job
\* unchanged; every other pair, from a terminal state or to a state outside
\* the table, is a conflict.
C3_TransitionTable ==
    \A from \in {"created", "running", "waiting", "completed", "failed", "expired"} :
        AppliedFrom(from) =>
            LET to == sm.req.new_state
                admitted ==
                    \/ from = "created"
                         /\ to \in {"running", "waiting", "completed", "failed", "expired"}
                    \/ from = "running"
                         /\ to \in {"waiting", "completed", "failed", "expired"}
                    \/ from = "waiting"
                         /\ to \in {"running", "completed", "failed", "expired"}
            IN  IF to = from THEN sm.res.kind = "ok" /\ sm.res.job = sm.job
                ELSE IF admitted
                THEN /\ sm.res.kind \in {"ok", "ContractViolationError"}
                     /\ sm.res.kind = "ok" => sm.res.job.spec.status.state = to
                ELSE sm.res.kind = "ConflictError"

\* a waiting job was moved to running
C3_Witness ==
    /\ AppliedFrom("waiting")
    /\ sm.req.new_state = "running"
    /\ sm.res.kind = "ok"
    /\ sm.res.job.spec.status.state = "running"

\* C4: whatever apply_transition returns or raises, the document it was
\* given is afterwards what it was before the call, also when the call
\* raises a contract violation half way through its writes; and the job it
\* returns on an admitted transition has the keys and the values of the
\* given one everywhere outside spec.status.
C4_StatusIsolation ==
    sm.pc = "applied" =>
        /\ sm.res.input_after = sm.job
        /\ sm.res.kind = "ok" =>
              /\ DOMAIN sm.res.job = DOMAIN sm.job
              /\ DOMAIN sm.res.job.spec = DOMAIN sm.job.spec
              /\ WithoutStatus(sm.res.job) = WithoutStatus(sm.job)

\* a move to failed that raised a contract violation after the state had
\* been written to the copy
C4_Witness ==
    /\ AppliedFrom("running")
    /\ sm.req.new_state = "failed"
    /\ sm.req.final_evaluation_ref = "evaluations/e1"
    /\ sm.req.failure_mode = ""
    /\ sm.res.kind = "ContractViolationError"

\* the request carries no value for an optional field: None or ""
Missing(v) == v = None \/ v = ""

\* (from, to) with from # to is a pair the transition check lets through
AdmittedPair(from, to) ==
    \/ from = "created" /\ to \in {"running", "waiting", "completed", "failed"}
    \/ from = "running" /\ to \in {"waiting", "completed", "failed"}
    \/ from = "waiting" /\ to \in {"running", "completed", "failed"}
    \/ from \notin {"completed", "failed", "expired"} /\ to = "expired"

\* the request lacks a field its target state requires
LacksRequiredField(req) ==
    \/ req.new_state = "completed" /\ Missing(req.final_evaluation_ref)
    \/ req.new_state = "failed"
          /\ (Missing(req.final_evaluation_ref) \/ Missing(req.failure_mode))
    \/ req.new_state = "expired" /\ Missing(req.expiry_reason)

\* C24: for a request to move a job to another state than the one it is
\* in: a pair (from, to) that is not admitted raises a conflict, also when
\* the request lacks a required field; an admitted pair to completed without
\* final_evaluation_ref, to failed without final_evaluation_ref or without
\* failure_mode, or to expired without expiry_reason raises a contract
\* violation; every other admitted request returns, and the returned job
\* has terminal_at = now and final_evaluation_ref (completed, failed),
\* failure_mode (failed) and expiry_reason (expired) as the request gave
\* them.
C24_RequiredFields ==
    \A from \in States \cup {"paused"} :
        (AppliedFrom(from) /\ sm.req.new_state # from) =>
            LET to == sm.req.new_state
                status == sm.res.job.spec.status
            IN  IF ~AdmittedPair(from, to) THEN sm.res.kind = "ConflictError"
                ELSE IF LacksRequiredField(sm.req)
                THEN sm.res.kind = "ContractViolationError"
                ELSE /\ sm.res.kind = "ok"
                     /\ to \in {"completed", "failed"} =>
                           /\ StatusField(status, "final_evaluation_ref")
                                 = sm.req.final_evaluation_ref
                           /\ StatusField(status, "terminal_at")
                                 = format_rfc3339(sm.req.now)
                     /\ to = "failed" =>
                           StatusField(status, "failure_mode") = sm.req.failure_mode
                     /\ to = "expired" =>
                           /\ StatusField(status, "expiry_reason")
                                 = sm.req.expiry_reason
                           /\ StatusField(status, "terminal_at")
                                 = format_rfc3339(sm.req.now)

\* a waiting job was moved to failed by a request that carries both
\* required fields
C24_Witness ==
    /\ AppliedFrom("waiting")
    /\ sm.req.new_state = "failed"
    /\ sm.req.final_evaluation_ref = "evaluations/e1"
    /\ sm.req.failure_mode = "evaluation_failure"
    /\ sm.res.kind = "ok"
    /\ sm.res.job.spec.status.terminal_at = format_rfc3339(sm.req.now)

\* C26 as stated: every call of apply_transition that returns without
\* error returns a document whose spec.status.status_updated_at is the
\* request's now.
C26_UpdatedAtOnEveryReturn ==
    (sm.pc = "applied" /\ sm.res.kind = "ok") =>
        sm.res.job.spec.status.status_updated_at = format_rfc3339(sm.req.now)

\* C26 amended: every call of apply_transition that returns without error
\* for a new_state other than the job's state returns a document whose
\* spec.status.status_updated_at is the request's now; a call for the state
\* the job is in returns the job as given, status_updated_at included.
C26_UpdatedAtOnStateChange ==
    (sm.pc = "applied" /\ sm.res.kind = "ok") =>
        IF sm.req.new_state = sm.job.spec.status.state
        THEN sm.res.job = sm.job
        ELSE sm.res.job.spec.status.status_updated_at = format_rfc3339(sm.req.now)

\* a running job stamped at 0 was moved to waiting at a later now, and the
\* returned job carries that now
C26_Witness ==
    /\ AppliedFrom("running")
    /\ sm.req.new_state = "waiting"
    /\ sm.res.kind = "ok"
    /\ sm.job.spec.status.status_updated_at = format_rfc3339(0)
    /\ sm.req.now > 0
    /\ sm.res.job.spec.status.status_updated_at = format_rfc3339(sm.req.now)

\* C27: apply_transition on a job whose spec.status is missing, is not an
\* object, or has no state raises a contract violation.
C27_MalformedStatusIsContractViolation ==
    (sm.pc = "applied" /\ ~HasStatusState(sm.job)) =>
        sm.res.kind = "ContractViolationError"

-----------------------------------------------------------------------------
(* Properties of enforce_job_within_org_policy, read off the call in sm *)

\* the call was made
PolicyApplied == sm.pc = "policy_applied"

\* the job's direct network policy is deny_all, which no org policy refuses
JobNetworkDenyAll ==
    sm.job.spec.permissions_snapshot.direct_external_network.policy = "deny_all"

\* the rule of the org for one skill id or skill category: not denied, and
\* allowed by the list or by the default
SkillRule(entry, allow, deny) ==
    /\ entry \notin Range(deny)
    /\ \/ entry \in Range(allow)
       \/ sm.org.spec.skill_policy.default_rule = "allow"

\* every skill id and every skill category of the job's snapshot passes the rule
JobSkillsPassRule ==
    LET pol == sm.org.spec.skill_policy
        skills == sm.job.spec.permissions_snapshot.skills
    IN  /\ \A sid \in Range(skills.allowed_skill_ids) :
              SkillRule(sid, pol.allow.skill_ids, pol.deny.skill_ids)
        /\ \A cat \in Range(skills.allowed_skill_categories) :
              SkillRule(cat, pol.allow.skill_categories, pol.deny.skill_categories)

\* C31: a job is rejected when one of the skill ids or skill categories of
\* its permissions snapshot is in the org's deny list, also when the default
\* rule is allow and also when the entry is in the allow list as well, or is
\* in neither list while the default rule is not allow; a job all of whose
\* entries are not denied and are allowed by the list or by the default is
\* accepted (its network policy being deny_all, so that no other rule of the
\* snapshot refuses it).
C31_SkillPermissionRule ==
    PolicyApplied =>
        /\ ~JobSkillsPassRule => sm.res = "PolicyViolationError"
        /\ (JobSkillsPassRule /\ JobNetworkDenyAll) => sm.res = "ok"

\* under default_rule allow, a job whose only skill id is in the org's allow
\* list and in its deny list was rejected
C31_Witness ==
    /\ PolicyApplied
    /\ sm.org.spec.skill_policy.default_rule = "allow"
    /\ sm.job.spec.permissions_snapshot.skills.allowed_skill_ids = <<"dual">>
    /\ sm.job.spec.permissions_snapshot.skills.allowed_skill_categories = <<>>
    /\ JobNetworkDenyAll
    /\ sm.res = "PolicyViolationError"

NetworkLabels == {"domains", "urls", "ip_cidrs"}

OrgNetwork == sm.org.spec.external_access.direct_network

JobNetwork == sm.job.spec.permissions_snapshot.direct_external_network

\* each list of the job's allowlist is a subset of the org's allowlist and
\* disjoint from the org's denylist
JobAllowlistWithinOrg ==
    \A label \in NetworkLabels :
        /\ Range(JobNetwork.allowlist[label]) \subseteq Range(OrgNetwork.allowlist[label])
        /\ Range(JobNetwork.allowlist[label]) \cap Range(OrgNetwork.denylist[label]) = {}

\* the job's allowlist has the elements of the org's allowlist, list by list
JobAllowlistEqualsOrg ==
    \A label \in NetworkLabels :
        Range(JobNetwork.allowlist[label]) = Range(OrgNetwork.allowlist[label])

\* the deny_all and the allowlist/allowlist parts of the rule, for a job
\* whose skills pass
DirectNetworkRule ==
    /\ (OrgNetwork.policy = "deny_all" /\ JobNetwork.policy # "deny_all")
          => sm.res = "PolicyViolationError"
    /\ (OrgNetwork.policy = "allowlist" /\ JobNetwork.policy = "allowlist") =>
          /\ sm.res = "ok" => JobAllowlistWithinOrg
          /\ (JobAllowlistWithinOrg /\ JobSkillsPassRule) => sm.res = "ok"
          /\ (\E label \in NetworkLabels :
                 ~(Range(JobNetwork.allowlist[label])
                      \subseteq Range(OrgNetwork.allowlist[label])))
                => sm.res = "PolicyViolationError"

\* C32 as stated: the deny_all and the allowlist/allowlist parts of the rule
\* hold, and a job whose allowlist equals the org's allowlist is admitted.
C32_DirectNetworkRuleAsStated ==
    PolicyApplied =>
        /\ DirectNetworkRule
        /\ (/\ OrgNetwork.policy = "allowlist" /\ JobNetwork.policy = "allowlist"
            /\ JobAllowlistEqualsOrg /\ JobSkillsPassRule) => sm.res = "ok"

\* C32 amended: a job whose policy is not deny_all is rejected when the
\* org's policy is deny_all; when both policies are allowlist, the job is
\* admitted only if, and (its skills passing) whenever, each list of its
\* allowlist is a subset of the org's allowlist and disjoint from the org's
\* denylist; so a job allowlist equal to the org's is admitted when the
\* org's allowlist shares no element with the org's denylist and rejected
\* when it shares one, and one element outside the org's allowlist makes the
\* job rejected.
C32_DirectNetworkRule ==
    PolicyApplied =>
        /\ DirectNetworkRule
        /\ (/\ OrgNetwork.policy = "allowlist" /\ JobNetwork.policy = "allowlist"
            /\ JobAllowlistEqualsOrg /\ JobSkillsPassRule) =>
              IF \A label \in NetworkLabels :
                    Range(OrgNetwork.allowlist[label])
                        \cap Range(OrgNetwork.denylist[label]) = {}
              THEN sm.res = "ok"
              ELSE sm.res = "PolicyViolationError"

\* under an org whose allowlist and denylist share no element, a job whose
\* allowlist equals the org's was admitted
C32_Witness ==
    /\ PolicyApplied
    /\ OrgNetwork.policy = "allowlist" /\ JobNetwork.policy = "allowlist"
    /\ OrgNetwork.denylist.domains = <<"bad.org">>
    /\ JobAllowlistEqualsOrg
    /\ sm.res = "ok"

\* deny_all < allowlist < allow_all
Permissiveness(policy) ==
    CASE policy = "deny_all" -> 0
      [] policy = "allowlist" -> 1
      [] policy = "allow_all" -> 2

\* C33: the direct_external_network policy of a job that
\* enforce_job_within_org_policy admits is not more permissive than the
\* org's direct_network policy, in the order deny_all < allowlist < allow_all.
C33_NetworkNotMorePermissive ==
    (PolicyApplied /\ sm.res = "ok") =>
        Permissiveness(JobNetwork.policy) <= Permissiveness(OrgNetwork.policy)

-----------------------------------------------------------------------------
(* Properties of the API, requests served one after another (Spec) *)

\* spec.status.state of the document stored under job_id, "absent" without one
StoredDocState(table, job_id) ==
    IF HasRow(table, job_id) THEN StoreGet(table, job_id).spec.status.state
    ELSE "absent"

\* worker w has finished a request of kind op
Finished(w, op) == wk[w].pc = "done" /\ wk[w].op = op

\* C1: once the stored spec.status.state of a job is completed, failed or
\* expired, no step of any submit_job, run_job, stop_job, submit_artifact or
\* submit_evaluation request changes it.
C1_StoredTerminalAbsorbing ==
    [][\A j \in JobIds :
          StoredDocState(jobs, j) \in {"completed", "failed", "expired"}
              => StoredDocState(jobs', j) = StoredDocState(jobs, j)]_vars

\* stop_job read a completed job, was refused, and the job is still completed
C1_Witness ==
    \E w \in SeqWorkers :
        /\ Finished(w, "stop_job")
        /\ wk[w].prev = "completed"
        /\ wk[w].ret.kind = "ConflictError"
        /\ StoredDocState(jobs, wk[w].job_id) = "completed"

\* C5: a job enters the store as the document submit_job admitted, and from
\* then on every step leaves it in the store with the same keys and the
\* same values everywhere outside spec.status.
C5_JobsKeptOnlyStatusDiffers ==
    [][\A j \in JobIds :
          /\ (~HasRow(jobs, j) /\ HasRow(jobs', j)) =>
                \E w \in Workers :
                    /\ wk'[w].op = "submit_job"
                    /\ wk'[w].pc = "submit_job_event"
                    /\ StoreGet(jobs', j) = wk'[w].doc
          /\ HasRow(jobs, j) =>
                /\ HasRow(jobs', j)
                /\ DOMAIN StoreGet(jobs', j) = DOMAIN StoreGet(jobs, j)
                /\ DOMAIN StoreGet(jobs', j).spec = DOMAIN StoreGet(jobs, j).spec
                /\ WithoutStatus(StoreGet(jobs', j)) = WithoutStatus(StoreGet(jobs, j))]_vars

\* two jobs are stored; one of them was run and then stopped
C5_Witness ==
    \E w \in SeqWorkers :
        /\ Finished(w, "stop_job")
        /\ wk[w].prev = "running"
        /\ wk[w].ret.kind = "ok"
        /\ StoredDocState(jobs, wk[w].job_id) = "waiting"
        /\ \A j \in JobIds : HasRow(jobs, j)

\* C6 as stated: a request appends one event for each document it inserted
\* into the job, artifact or evaluation store and one for each change it made
\* to a stored job state, and no others; so a request that changed a store
\* appended an event.
C6_AuditCoverage ==
    \A w \in Workers :
        wk[w].pc = "done" =>
            /\ wk[w].n_ev = wk[w].n_sub + wk[w].n_chg
            /\ wk[w].n_sub + wk[w].n_chg > 0 => wk[w].n_ev > 0

\* C7: a stored artifact or evaluation is never written again; it enters its
\* store as the document that was submitted; and an append under an id that
\* is taken ends the request with a conflict and leaves the store as it was.
C7_AppendOnly ==
    [][/\ \A a \in ArtifactIds :
            /\ HasRow(artifacts, a) => artifacts'[a] = artifacts[a]
            /\ (~HasRow(artifacts, a) /\ HasRow(artifacts', a)) =>
                  \E w \in Workers : /\ wk[w].pc = "artifact_append"
                                     /\ StoreGet(artifacts', a) = wk[w].doc
       /\ \A e \in EvaluationIds :
            /\ HasRow(evaluations, e) => evaluations'[e] = evaluations[e]
            /\ (~HasRow(evaluations, e) /\ HasRow(evaluations', e)) =>
                  \E w \in Workers : /\ wk[w].pc = "eval_append"
                                     /\ StoreGet(evaluations', e) = wk[w].doc
       /\ \A w \in Workers :
            /\ ( /\ wk[w].pc = "artifact_append"
                 /\ HasRow(artifacts, wk[w].doc.metadata.artifact_id)
                 /\ wk'[w] # wk[w] ) =>
                  /\ wk'[w].pc = "done"
                  /\ wk'[w].ret.kind = "ConflictError"
                  /\ artifacts' = artifacts
            /\ ( /\ wk[w].pc = "eval_append"
                 /\ HasRow(evaluations, wk[w].doc.metadata.evaluation_id)
                 /\ wk'[w] # wk[w] ) =>
                  /\ wk'[w].pc = "done"
                  /\ wk'[w].ret.kind = "ConflictError"
                  /\ evaluations' = evaluations]_vars

\* an artifact was submitted for a job that is not terminal under an id that
\* is taken, and was refused with a conflict
C7_Witness ==
    \E w \in SeqWorkers :
        /\ Finished(w, "submit_artifact")
        /\ wk[w].prev \in {"created", "running", "waiting"}
        /\ wk[w].ret.kind = "ConflictError"
        /\ \E a \in ArtifactIds : HasRow(artifacts, a)

\* C8: every stored artifact and every stored evaluation names a stored job
\* and carries the metadata.org_id of that job.
C8_OrgScopedReferences ==
    /\ \A a \in ArtifactIds :
          HasRow(artifacts, a) =>
              LET x == StoreGet(artifacts, a)
                  j == x.spec.job_ref.job_id
              IN  /\ HasRow(jobs, j)
                  /\ StoreGet(jobs, j).metadata.org_id = x.metadata.org_id
    /\ \A e \in EvaluationIds :
          HasRow(evaluations, e) =>
              LET x == StoreGet(evaluations, e)
                  j == x.spec.job_ref.job_id
              IN  /\ HasRow(jobs, j)
                  /\ StoreGet(jobs, j).metadata.org_id = x.metadata.org_id

\* an artifact and an evaluation are stored, for jobs of two organisations
C8_Witness ==
    /\ \E a \in ArtifactIds :
          /\ HasRow(artifacts, a)
          /\ StoreGet(artifacts, a).metadata.org_id = "orgA"
    /\ \E e \in EvaluationIds :
          /\ HasRow(evaluations, e)
          /\ StoreGet(evaluations, e).metadata.org_id = "orgU"

\* the event appended last but k
EventFromEnd(k) == events[Len(events) - k]

\* an event of type event_type about the job of worker w's request
IsEventOf(e, w, event_type) ==
    /\ e.event_type = event_type
    /\ e.job_id = wk[w].job_id

\* worker w's run_job has returned a job it read in created or waiting
RunReturned(w) ==
    /\ Finished(w, "run_job")
    /\ wk[w].ret.kind = "ok"
    /\ wk[w].prev \in {"created", "waiting"}

\* the request returned with the job stored in waiting, having appended
\* job_started and then execution_deferred, and nothing else
DeferredOutcome(w) ==
    /\ StoredDocState(jobs, wk[w].job_id) = "waiting"
    /\ wk[w].ret.job.spec.status.state = "waiting"
    /\ wk[w].n_ev = 2
    /\ Len(events) >= 2
    /\ IsEventOf(EventFromEnd(1), w, "job_started")
    /\ IsEventOf(EventFromEnd(0), w, "execution_deferred")
    /\ EventFromEnd(0).details.reason = "agent_execution_not_implemented"

\* C9 as stated: with execution_deferred = true, every run_job that returns
\* successfully on a job it found in created or waiting has stored running,
\* recorded job_started, stored waiting and recorded execution_deferred, in
\* that order, and returns with the job stored in waiting.
C9_DeferredRunAsStated ==
    \A w \in Workers :
        (cfg.execution_deferred /\ RunReturned(w)) => DeferredOutcome(w)

\* C9 amended: with execution_deferred = true, a run_job on a job in created
\* or waiting whose expires_at is later than the time of the request has the
\* job stored in running before it records job_started, records job_started
\* before it stores waiting, stores waiting before it records
\* execution_deferred, and returns with the job stored in waiting and the two
\* events last in the log in that order.  (A run_job on a job whose
\* expires_at has been reached returns successfully with the job expired.)
C9_DeferredRun ==
    \A w \in Workers :
        (cfg.execution_deferred /\ wk[w].op = "run_job") =>
            /\ wk[w].pc = "run_event_started" =>
                  StoredDocState(jobs, wk[w].job_id) = "running"
            /\ wk[w].pc = "run_update_waiting" =>
                  /\ StoredDocState(jobs, wk[w].job_id) = "running"
                  /\ IsEventOf(EventFromEnd(0), w, "job_started")
            /\ wk[w].pc = "run_event_deferred" =>
                  /\ StoredDocState(jobs, wk[w].job_id) = "waiting"
                  /\ IsEventOf(EventFromEnd(0), w, "job_started")
            /\ ( /\ RunReturned(w)
                 /\ parse_rfc3339(wk[w].ret.job.spec.timestamps.expires_at) > wk[w].t )
                  => DeferredOutcome(w)

\* a waiting job was run again and deferred again
C9_Witness ==
    \E w \in SeqWorkers :
        /\ cfg.execution_deferred
        /\ RunReturned(w)
        /\ wk[w].prev = "waiting"
        /\ DeferredOutcome(w)

\* C10 as stated: a run_job that returns successfully returns the job in
\* running, or in waiting when execution is deferred; one that fails fails
\* with not-found, conflict or policy.
C10_RunJobOutcomeAsStated ==
    \A w \in Workers :
        Finished(w, "run_job") =>
            IF wk[w].ret.kind = "ok"
            THEN wk[w].ret.job.spec.status.state =
                     IF cfg.execution_deferred THEN "waiting" ELSE "running"
            ELSE wk[w].ret.kind \in
                     {"NotFoundError", "ConflictError", "PolicyViolationError"}

\* C10 amended: a run_job that returns successfully returns the job in
\* expired when its expires_at is not later than the time of the request,
\* and otherwise in running, or in waiting when execution is deferred; one
\* that fails fails with not-found, conflict or policy.
C10_RunJobOutcome ==
    \A w \in Workers :
        Finished(w, "run_job") =>
            IF wk[w].ret.kind = "ok"
            THEN wk[w].ret.job.spec.status.state =
                     IF parse_rfc3339(wk[w].ret.job.spec.timestamps.expires_at) <= wk[w].t
                     THEN "expired"
                     ELSE IF cfg.execution_deferred THEN "waiting" ELSE "running"
            ELSE wk[w].ret.kind \in
                     {"NotFoundError", "ConflictError", "PolicyViolationError"}

\* a run_job on a created job returned the job expired
C10_Witness ==
    \E w \in SeqWorkers :
        /\ Finished(w, "run_job")
        /\ wk[w].prev = "created"
        /\ wk[w].ret.kind = "ok"
        /\ wk[w].ret.job.spec.status.state = "expired"
        /\ StoredDocState(jobs, wk[w].job_id) = "expired"

\* the row that a step appended to the event log
Appended == events'[Len(events')]

\* a step appended one event of type event_type about job_id, and no other
AppendsOnly(event_type, job_id) ==
    /\ Len(events') = Len(events) + 1
    /\ SubSeq(events', 1, Len(events)) = events
    /\ Appended.event_type = event_type
    /\ Appended.job_id = job_id

\* the stored job is expired, with the reason the core gives
StoredExpired(table, job_id) ==
    /\ StoredDocState(table, job_id) = "expired"
    /\ "expiry_reason" \in DOMAIN StoreGet(table, job_id).spec.status
    /\ StoreGet(table, job_id).spec.status.expiry_reason = "expires_at_reached"

\* the job stored under job_id is not terminal and its expires_at is reached
DueToExpire(job_id) ==
    /\ HasRow(jobs, job_id)
    /\ StoredDocState(jobs, job_id) \in {"created", "running", "waiting"}
    /\ parse_rfc3339(StoreGet(jobs, job_id).spec.timestamps.expires_at) <= now

\* C11: submit_job rejects a job whose expires_at is not later than now and
\* stores nothing; run_job on a stored job that is not terminal and whose
\* expires_at is not later than now goes from its read of the job straight
\* to the write of the expired job (no count of active jobs, no count of
\* job_started events), stores the job expired with expiry_reason
\* expires_at_reached, then records job_expired and returns, having recorded
\* that one event only.
C11_ExpiryBoundary ==
    [][/\ \A w \in Workers :
            (wk[w].pc = "idle" /\ wk'[w].op = "submit_job") =>
                \A job \in JobInputs, conforms \in BOOLEAN :
                    ( /\ wk'[w].job_id = job.metadata.job_id
                      /\ parse_rfc3339(job.spec.timestamps.expires_at) <= now ) =>
                        \/ /\ wk'[w].pc = "done"
                           /\ wk'[w].ret.kind
                                 \in {"SchemaValidationError", "PolicyViolationError"}
                           /\ jobs' = jobs
                        \/ ~SubmitJob(w, job, conforms)
       /\ \A w \in Workers :
            (wk[w].pc = "idle" /\ wk'[w].op = "run_job") =>
                \A job_id \in JobIds :
                    (wk'[w].job_id = job_id /\ DueToExpire(job_id)) =>
                        \/ wk'[w].pc = "run_expire_update"
                        \/ ~RunJobGet(w, job_id)
       /\ \A w \in Workers :
            /\ (wk[w].pc = "run_expire_update" /\ wk'[w] # wk[w]) =>
                  /\ wk'[w].pc = "run_expire_event"
                  /\ StoredExpired(jobs', wk[w].job_id)
                  /\ events' = events
            /\ (wk[w].pc = "run_expire_event" /\ wk'[w] # wk[w]) =>
                  /\ AppendsOnly("job_expired", wk[w].job_id)
                  /\ jobs' = jobs
                  /\ Finished(w, "run_job")'
                  /\ wk'[w].ret.kind = "ok"
                  /\ wk'[w].n_ev = 1]_vars

\* run_job found a running job at its expires_at and returned it expired
C11_Witness ==
    \E w \in SeqWorkers :
        /\ Finished(w, "run_job")
        /\ wk[w].prev = "running"
        /\ wk[w].ret.kind = "ok"
        /\ wk[w].n_ev = 1
        /\ StoredExpired(jobs, wk[w].job_id)
        /\ parse_rfc3339(wk[w].ret.job.spec.timestamps.expires_at) = wk[w].t

\* C12: submit_evaluation of an evaluation that conforms to its schema and
\* carries the org of the job, for a stored job that is not terminal and
\* whose expires_at is not later than now, goes from its read of the job
\* straight to the write of the expired job, whoever the evaluator is and
\* whatever next_job_state is asked for; it stores the job expired with
\* expiry_reason expires_at_reached, then records job_expired and fails with
\* a conflict, having recorded that one event only and stored no evaluation.
C12_EvaluationOnExpiredJob ==
    [][/\ \A w \in Workers :
            (wk[w].pc = "idle" /\ wk'[w].op = "submit_evaluation") =>
                \A evaluation \in EvaluationInputs :
                    ( /\ wk'[w].doc_id = evaluation.metadata.evaluation_id
                      /\ wk'[w].job_id = evaluation.spec.job_ref.job_id
                      /\ DueToExpire(evaluation.spec.job_ref.job_id)
                      /\ StoreGet(jobs, evaluation.spec.job_ref.job_id).metadata.org_id
                            = evaluation.metadata.org_id ) =>
                        \/ wk'[w].pc = "eval_expire_update"
                        \/ ~SubmitEvaluationGet(w, evaluation, TRUE)
       /\ \A w \in Workers :
            /\ (wk[w].pc = "eval_expire_update" /\ wk'[w] # wk[w]) =>
                  /\ wk'[w].pc = "eval_expire_event"
                  /\ StoredExpired(jobs', wk[w].job_id)
                  /\ events' = events
                  /\ evaluations' = evaluations
            /\ (wk[w].pc = "eval_expire_event" /\ wk'[w] # wk[w]) =>
                  /\ AppendsOnly("job_expired", wk[w].job_id)
                  /\ jobs' = jobs
                  /\ evaluations' = evaluations
                  /\ Finished(w, "submit_evaluation")'
                  /\ wk'[w].ret.kind = "ConflictError"
                  /\ wk'[w].n_ev = 1
                  /\ wk'[w].n_sub = 0]_vars

\* an evaluation arrived for a waiting job at its expires_at: the job is
\* stored expired, one event was recorded, no evaluation is stored
C12_Witness ==
    \E w \in SeqWorkers :
        /\ Finished(w, "submit_evaluation")
        /\ wk[w].prev = "waiting"
        /\ wk[w].ret.kind = "ConflictError"
        /\ wk[w].n_ev = 1
        /\ StoredExpired(jobs, wk[w].job_id)
        /\ events[Len(events)].event_type = "job_expired"
        /\ \A e \in EvaluationIds : ~HasRow(evaluations, e)

\* the checks of submit that precede the mapping of next_job_state pass: the
\* job is stored, of the evaluation's org, not terminal, not expired, and
\* the evaluator is acceptable
ReachesMapping(evaluation) ==
    LET job_id == evaluation.spec.job_ref.job_id
    IN  /\ HasRow(jobs, job_id)
        /\ StoreGet(jobs, job_id).metadata.org_id = evaluation.metadata.org_id
        /\ StoredDocState(jobs, job_id) \in {"created", "running", "waiting"}
        /\ parse_rfc3339(StoreGet(jobs, job_id).spec.timestamps.expires_at) > now
        /\ EvaluatorVerdict(evaluation) = "ok"

\* C13: the job write of an admitted evaluation stores, for next_job_state
\* completed, the job completed with final_evaluation_ref
\* evaluations/<evaluation_id> and last_stop_condition evaluation_passed;
\* for failed, the job failed with that final_evaluation_ref, failure_mode
\* evaluation_failure and last_stop_condition evaluation_failed; for
\* running or waiting, the job in that state with no final_evaluation_ref,
\* no failure_mode and the last_stop_condition it had; the request then
\* returns the stored job.  An evaluation with any other next_job_state that
\* reaches the mapping is a policy violation that leaves the job, the
\* evaluations and the event log as they were.
C13_OutcomeMapping ==
    [][/\ \A w \in Workers :
            /\ (wk[w].pc = "eval_update" /\ wk'[w] # wk[w]) =>
                  LET desired == wk[w].doc.spec.outcome.next_job_state
                      ref == "evaluations/" \o wk[w].doc.metadata.evaluation_id
                      before == StoreGet(jobs, wk[w].job_id).spec.status
                      after == StoreGet(jobs', wk[w].job_id).spec.status
                  IN  /\ wk'[w].pc = "eval_event_changed"
                      /\ after.state = desired
                      /\ desired \in {"completed", "failed", "running", "waiting"}
                      /\ desired = "completed" =>
                            /\ StatusField(after, "final_evaluation_ref") = ref
                            /\ StatusField(after, "last_stop_condition") = "evaluation_passed"
                            /\ StatusField(after, "failure_mode") = None
                      /\ desired = "failed" =>
                            /\ StatusField(after, "final_evaluation_ref") = ref
                            /\ StatusField(after, "failure_mode") = "evaluation_failure"
                            /\ StatusField(after, "last_stop_condition") = "evaluation_failed"
                      /\ desired \in {"running", "waiting"} =>
                            /\ StatusField(after, "final_evaluation_ref") = None
                            /\ StatusField(after, "failure_mode") = None
                            /\ StatusField(after, "last_stop_condition")
                                  = StatusField(before, "last_stop_condition")
            /\ (wk[w].pc = "eval_event_changed" /\ wk'[w] # wk[w]) =>
                  /\ Finished(w, "submit_evaluation")'
                  /\ wk'[w].ret.kind = "ok"
                  /\ wk'[w].ret.job = StoreGet(jobs', wk[w].job_id)
                  /\ jobs' = jobs
       /\ \A w \in Workers :
            (wk[w].pc = "idle" /\ wk'[w].op = "submit_evaluation") =>
                \A evaluation \in EvaluationInputs :
                    ( /\ wk'[w].doc_id = evaluation.metadata.evaluation_id
                      /\ wk'[w].job_id = evaluation.spec.job_ref.job_id
                      /\ evaluation.spec.outcome.next_job_state
                            \notin {"completed", "failed", "running", "waiting"}
                      /\ ReachesMapping(evaluation) ) =>
                        \/ /\ wk'[w].pc = "done"
                           /\ wk'[w].ret.kind = "PolicyViolationError"
                           /\ jobs' = jobs
                           /\ evaluations' = evaluations
                           /\ events' = events
                        \/ ~SubmitEvaluationGet(w, evaluation, TRUE)]_vars

\* an evaluation e2 failed a job: the job is stored failed with the
\* reference to e2, and e2 is stored
C13_Witness ==
    \E w \in SeqWorkers :
        /\ Finished(w, "submit_evaluation")
        /\ wk[w].ret.kind = "ok"
        /\ HasRow(evaluations, "e2")
        /\ LET status == StoreGet(jobs, wk[w].job_id).spec.status
           IN  /\ status.state = "failed"
               /\ StatusField(status, "final_evaluation_ref") = "evaluations/e2"
               /\ StatusField(status, "failure_mode") = "evaluation_failure"
               /\ StatusField(status, "last_stop_condition") = "evaluation_failed"

\* the evaluator is an agent of the registry, the org is in the registry,
\* and the declared authority_level is not the agent's, or the agent is not
\* included in the org, or the agent produced an artifact it decides on
UnacceptableAgentEvaluator(evaluation) ==
    LET evaluator == evaluation.spec.evaluator
        org_id == evaluation.metadata.org_id
    IN  /\ evaluator.actor_type = "agent"
        /\ has_agent(evaluator.actor_id)
        /\ has_org(org_id)
        /\ \/ get_agent(evaluator.actor_id).spec.authority.level
                 # evaluator.authority_level
           \/ evaluator.actor_id \notin included_agent_ids_for_org(org_id)
           \/ \E i \in DOMAIN evaluation.spec.artifact_decisions :
                 evaluation.spec.artifact_decisions[i].producing_agent_id
                    = evaluator.actor_id

\* the checks of submit that precede those of the evaluator pass: the job
\* is stored, of the evaluation's org, not terminal and not expired
ReachesEvaluatorChecks(evaluation) ==
    LET job_id == evaluation.spec.job_ref.job_id
    IN  /\ HasRow(jobs, job_id)
        /\ StoreGet(jobs, job_id).metadata.org_id = evaluation.metadata.org_id
        /\ StoredDocState(jobs, job_id) \in {"created", "running", "waiting"}
        /\ parse_rfc3339(StoreGet(jobs, job_id).spec.timestamps.expires_at) > now

\* C14: an evaluation by an agent whose declared authority_level is not the
\* registry's, or who is not included in the org, or who produced an
\* artifact the evaluation decides on, is refused with a policy violation
\* when it reaches the checks of the evaluator, and the job store, the
\* evaluation store and the event log stay as they were; no such evaluation
\* is ever stored.
C14_AgentEvaluatorRejected ==
    [][/\ \A w \in Workers :
            (wk[w].pc = "idle" /\ wk'[w].op = "submit_evaluation") =>
                \A evaluation \in EvaluationInputs :
                    ( /\ wk'[w].doc_id = evaluation.metadata.evaluation_id
                      /\ wk'[w].job_id = evaluation.spec.job_ref.job_id
                      /\ UnacceptableAgentEvaluator(evaluation)
                      /\ ReachesEvaluatorChecks(evaluation) ) =>
                        \/ /\ wk'[w].pc = "done"
                           /\ wk'[w].ret.kind = "PolicyViolationError"
                           /\ jobs' = jobs
                           /\ evaluations' = evaluations
                           /\ events' = events
                        \/ ~SubmitEvaluationGet(w, evaluation, TRUE)
       /\ evaluations' # evaluations =>
            \A e \in EvaluationIds :
                HasRow(evaluations', e) =>
                    ~UnacceptableAgentEvaluator(StoreGet(evaluations', e))]_vars

\* evaluation e2, which only agents write and which names the org of j1,
\* was refused as a policy violation while j1 was waiting and not expired,
\* and nothing is stored of it
C14_Witness ==
    \E w \in SeqWorkers :
        /\ Finished(w, "submit_evaluation")
        /\ wk[w].ret.kind = "PolicyViolationError"
        /\ wk[w].job_id = "j1"
        /\ wk[w].prev = "waiting"
        /\ parse_rfc3339(StoreGet(jobs, "j1").spec.timestamps.expires_at) > wk[w].t
        /\ StoredDocState(jobs, "j1") = "waiting"
        /\ wk[w].doc_id = "e2"
        /\ ~HasRow(evaluations, "e2")
        /\ wk[w].n_sub = 0 /\ wk[w].n_chg = 0 /\ wk[w].n_ev = 0

\* C22: a submit_job request that is rejected, whether with a schema
\* error, a policy violation (submission shape, global limits, unknown org,
\* org policy) or a conflict (job_id already stored), has created no job,
\* has recorded no event, and has left the job store as it was.
C22_RejectedSubmitJob ==
    [][\A w \in Workers :
          (wk[w].pc = "idle" /\ wk'[w].op = "submit_job" /\ wk'[w].pc = "done") =>
              /\ wk'[w].ret.kind \in {"SchemaValidationError", "PolicyViolationError",
                                      "ConflictError"}
              /\ wk'[w].n_sub = 0
              /\ jobs' = jobs
              /\ events' = events]_vars

\* a second submit_job for a job_id whose job has since left created was
\* rejected with a conflict, and the stored job is still not in created
C22_Witness ==
    \E w \in SeqWorkers :
        /\ Finished(w, "submit_job")
        /\ wk[w].ret.kind = "ConflictError"
        /\ wk[w].n_ev = 0
        /\ StoredDocState(jobs, wk[w].job_id) \notin {"absent", "created"}

\* C23: when a stop_job request has returned: if it read the job in
\* running, the job is stored in waiting with last_stop_condition
\* manual_stop, the returned job is the stored one, and the request recorded
\* one event, job_stopped; if it read the job in waiting, it returned the
\* stored job, stored nothing and recorded no event; if it read the job in
\* created or in a terminal state, it failed with a conflict, stored nothing
\* and recorded no event.
C23_StopJob ==
    \A w \in Workers :
        (Finished(w, "stop_job") /\ wk[w].ret.kind # "NotFoundError") =>
            LET job_id == wk[w].job_id
                stored == StoredGet(job_id)
            IN  IF wk[w].prev = "running"
                THEN /\ wk[w].ret.kind = "ok"
                     /\ wk[w].ret.job = stored
                     /\ stored.spec.status.state = "waiting"
                     /\ StatusField(stored.spec.status, "last_stop_condition")
                           = "manual_stop"
                     /\ wk[w].n_chg = 1
                     /\ wk[w].n_ev = 1
                     /\ IsEventOf(EventFromEnd(0), w, "job_stopped")
                ELSE IF wk[w].prev = "waiting"
                THEN /\ wk[w].ret.kind = "ok"
                     /\ wk[w].ret.job = stored
                     /\ stored.spec.status.state = "waiting"
                     /\ wk[w].n_chg = 0
                     /\ wk[w].n_ev = 0
                ELSE /\ wk[w].prev \in {"created", "completed", "failed", "expired"}
                     /\ wk[w].ret.kind = "ConflictError"
                     /\ stored.spec.status.state = wk[w].prev
                     /\ wk[w].n_chg = 0
                     /\ wk[w].n_ev = 0

\* a stop_job that read its job in running has returned
C23_Witness ==
    \E w \in SeqWorkers :
        /\ Finished(w, "stop_job")
        /\ wk[w].prev = "running"
        /\ wk[w].ret.kind = "ok"
        /\ wk[w].ret.job.spec.status.last_stop_condition = "manual_stop"
        /\ StoredDocState(jobs, wk[w].job_id) = "waiting"

\* the types of the events about job_id, in the order of the log
EventTypesOf(job_id) ==
    LET about(e) == e.job_id = job_id
        log == SelectSeq(events, about)
    IN  [i \in DOMAIN log |-> log[i].event_type]

\* the stored evaluations that refer to job_id
EvaluationsOf(job_id) ==
    {e \in EvaluationIds :
        HasRow(evaluations, e) /\ StoreGet(evaluations, e).spec.job_ref.job_id = job_id}

\* worker w's submit_evaluation has returned: it was admitted with
\* next_job_state = completed and is the only evaluation of its job, and the
\* job was run once, in deferred mode
HappyPathDone(w) ==
    /\ Finished(w, "submit_evaluation")
    /\ wk[w].ret.kind = "ok"
    /\ cfg.execution_deferred
    /\ EvaluationsOf(wk[w].job_id) = {wk[w].doc_id}
    /\ StoreGet(evaluations, wk[w].doc_id).spec.outcome.next_job_state = "completed"
    /\ Cardinality({i \in DOMAIN events :
           events[i].job_id = wk[w].job_id /\ events[i].event_type = "job_started"}) = 1

\* C28: when a job has been submitted, run once in deferred mode and then
\* completed by an admitted evaluation with next_job_state = completed, the
\* job is stored in completed and the events about it are job_submitted,
\* job_started, execution_deferred, evaluation_submitted, job_state_changed,
\* these five in this order.
C28_HappyPath ==
    \A w \in Workers :
        HappyPathDone(w) =>
            /\ StoredDocState(jobs, wk[w].job_id) = "completed"
            /\ EventTypesOf(wk[w].job_id)
                  = <<"job_submitted", "job_started", "execution_deferred",
                      "evaluation_submitted", "job_state_changed">>

\* the evaluation that completes a job run once in deferred mode has
\* returned
C28_Witness ==
    \E w \in SeqWorkers :
        /\ HappyPathDone(w)
        /\ wk[w].prev = "waiting"
        /\ Len(EventTypesOf(wk[w].job_id)) = 5

\* the conditions of artifact admission other than the one on the agent:
\* the referenced job is stored, is of the artifact's org and is not
\* terminal, and the artifact_type is among the allowed_types of the org
ArtifactJobAndTypeOk(artifact) ==
    LET job_id == artifact.spec.job_ref.job_id
        org_id == artifact.metadata.org_id
    IN  /\ HasRow(jobs, job_id)
        /\ StoredGet(job_id).metadata.org_id = org_id
        /\ StoredDocState(jobs, job_id) \notin {"completed", "failed", "expired"}
        /\ has_org(org_id)
        /\ \E x \in Range(get_org(org_id).spec.artifact_policy.allowed_types) :
              x.type_id = artifact.metadata.artifact_type

\* the producing agent is one of the org's included agents
ArtifactAgentIncluded(artifact) ==
    artifact.spec.produced_by.agent_id
        \in included_agent_ids_for_org(artifact.metadata.org_id)

\* the artifact carries no producing agent_id (the empty string)
ArtifactAgentEmpty(artifact) == artifact.spec.produced_by.agent_id = ""

\* C29 as stated, its first half: an artifact that submit_artifact has
\* stored refers to a stored job of its org that is not terminal, has an
\* artifact_type among the org's allowed_types, and has a producing agent_id
\* that is in included_agent_ids_for_org(org_id).
C29_StoredOnlyWithIncludedAgent ==
    \A w \in Workers :
        (Finished(w, "submit_artifact") /\ wk[w].ret.kind = "ok") =>
            LET artifact == StoreGet(artifacts, wk[w].doc_id)
            IN  ArtifactJobAndTypeOk(artifact) /\ ArtifactAgentIncluded(artifact)

\* C29 amended: submit_artifact calls the artifact store only for an
\* artifact whose job is stored, is of the artifact's org and is not
\* terminal, whose artifact_type is among the org's allowed_types and whose
\* producing agent_id is empty or in included_agent_ids_for_org(org_id), and
\* a request that returns has stored that artifact; for any other artifact
\* the request fails with a schema error, not-found, a policy violation or a
\* conflict; and a request that fails leaves the artifact store unchanged.
C29_ArtifactAdmission ==
    [][\A w \in Workers :
          /\ wk[w].pc = "artifact_append" =>
                /\ ArtifactJobAndTypeOk(wk[w].doc)
                /\ ArtifactAgentEmpty(wk[w].doc) \/ ArtifactAgentIncluded(wk[w].doc)
                /\ IF wk'[w].ret.kind = "ok"
                   THEN StoreGet(artifacts', wk[w].doc_id) = wk[w].doc
                   ELSE wk'[w].ret.kind = "ConflictError" /\ artifacts' = artifacts
          /\ (wk[w].pc = "idle" /\ wk'[w].op = "submit_artifact") =>
                /\ artifacts' = artifacts
                /\ wk'[w].pc = "done" =>
                      wk'[w].ret.kind \in {"SchemaValidationError", "NotFoundError",
                                           "PolicyViolationError", "ConflictError"}
                /\ \A artifact \in ArtifactInputs :
                      (/\ wk'[w].doc_id = artifact.metadata.artifact_id
                       /\ wk'[w].job_id = artifact.spec.job_ref.job_id
                       /\ ~(/\ ArtifactJobAndTypeOk(artifact)
                            /\ ArtifactAgentEmpty(artifact)
                                 \/ ArtifactAgentIncluded(artifact)))
                      => \/ wk'[w].pc = "done"
                         \/ ~\E conforms \in BOOLEAN :
                                SubmitArtifactGet(w, artifact, conforms)]_vars

\* an artifact produced by an included agent was stored for a job that is
\* not terminal
C29_Witness ==
    \E w \in SeqWorkers :
        /\ Finished(w, "submit_artifact")
        /\ wk[w].ret.kind = "ok"
        /\ HasRow(artifacts, wk[w].doc_id)
        /\ ArtifactAgentIncluded(StoreGet(artifacts, wk[w].doc_id))
        /\ ArtifactJobAndTypeOk(StoreGet(artifacts, wk[w].doc_id))

\* the submission passes the checks that do not look at the registry: the
\* submission shape and the global limits
PassesShapeAndLimits(job) ==
    /\ enforce_job_contract_submission_shape(job) = "ok"
    /\ enforce_job_contract_limits(job, LimitsConfig(cfg.require_known_org), now) = "ok"

\* C30: with require_known_org on, a submit_job for a job whose org_id is not
\* in the registry is rejected and stores nothing.  With require_known_org
\* off, such a job is stored as submitted whenever it passes validation, the
\* submission shape and the global limits and its job_id is free, no policy
\* of any org being applied; and a run_job that reads such a job in created
\* or waiting before its expires_at goes on to store it in running without
\* counting active jobs or job_started events.
C30_RequireKnownOrg ==
    [][\A w \in Workers :
          /\ (wk[w].pc = "idle" /\ wk'[w].op = "submit_job") =>
                \A job \in JobInputs :
                    (/\ wk'[w].job_id = job.metadata.job_id
                     /\ ~has_org(job.metadata.org_id))
                    => \/ IF cfg.require_known_org
                          THEN /\ wk'[w].pc = "done"
                               /\ wk'[w].ret.kind \in {"SchemaValidationError",
                                                       "PolicyViolationError"}
                               /\ jobs' = jobs
                          ELSE \/ /\ wk'[w].pc = "submit_job_event"
                                  /\ ~HasRow(jobs, job.metadata.job_id)
                                  /\ StoreGet(jobs', job.metadata.job_id) = job
                               \/ /\ wk'[w].pc = "done"
                                  /\ \/ wk'[w].ret.kind = "SchemaValidationError"
                                     \/ ~PassesShapeAndLimits(job)
                                     \/ HasRow(jobs, job.metadata.job_id)
                       \/ ~\E conforms \in BOOLEAN : SubmitJob(w, job, conforms)
          /\ (/\ wk[w].pc = "idle" /\ wk'[w].op = "run_job"
              /\ HasRow(jobs, wk'[w].job_id)
              /\ ~has_org(StoredGet(wk'[w].job_id).metadata.org_id)
              /\ StoredDocState(jobs, wk'[w].job_id) \in {"created", "waiting"}
              /\ parse_rfc3339(StoredGet(wk'[w].job_id).spec.timestamps.expires_at) > now)
                => wk'[w].pc = "run_update_running"
          /\ wk[w].pc \in {"run_count_active", "run_count_events"} =>
                has_org(wk[w].job.metadata.org_id)]_vars

\* with require_known_org off, a job of an org that is not in the registry
\* was submitted and run a second time from waiting, and is stored with two
\* job_started events
C30_Witness ==
    \E w \in SeqWorkers :
        /\ ~cfg.require_known_org
        /\ Finished(w, "run_job")
        /\ wk[w].ret.kind = "ok"
        /\ wk[w].prev = "waiting"
        /\ ~has_org(StoredGet(wk[w].job_id).metadata.org_id)
        /\ Cardinality({i \in DOMAIN events :
               events[i].job_id = wk[w].job_id /\ events[i].event_type = "job_started"}) = 2

\* C34: no agent evaluates its own artifacts: for every stored evaluation
\* whose evaluator is an agent, no stored artifact of the job the evaluation
\* refers to has that agent as spec.produced_by.agent_id.
C34_NoSelfEvaluation ==
    \A e \in EvaluationIds, a \in ArtifactIds :
        (/\ HasRow(evaluations, e) /\ HasRow(artifacts, a)
         /\ StoreGet(evaluations, e).spec.evaluator.actor_type = "agent"
         /\ StoreGet(artifacts, a).spec.job_ref.job_id
               = StoreGet(evaluations, e).spec.job_ref.job_id)
        => StoreGet(artifacts, a).spec.produced_by.agent_id
               # StoreGet(evaluations, e).spec.evaluator.actor_id


\* a stored evaluation evaluation_id refers to job_id and decides state
DecidedBy(job_id, evaluation_id, state) ==
    /\ HasRow(evaluations, evaluation_id)
    /\ StoreGet(evaluations, evaluation_id).spec.job_ref.job_id = job_id
    /\ StoreGet(evaluations, evaluation_id).spec.outcome.next_job_state = state

\* a stored job in completed or failed names a stored evaluation of that job
\* whose next_job_state is the state of the job
FinalStateHasEvaluation ==
    \A j \in JobIds :
        StoredDocState(jobs, j) \in {"completed", "failed"}
            => \E e \in EvaluationIds :
                  /\ StatusField(StoredGet(j).spec.status, "final_evaluation_ref")
                        = "evaluations/" \o e
                  /\ DecidedBy(j, e, StoredDocState(jobs, j))

\* a step that stores a job in completed or failed is the job update of a
\* submit_evaluation request for that job
FinalStateStoredByEvaluation ==
    \A j \in JobIds :
        (/\ jobs'[j] # jobs[j]
         /\ StoredDocState(jobs', j) \in {"completed", "failed"})
        => \E w \in SeqWorkers :
              /\ wk[w].op = "submit_evaluation"
              /\ wk[w].pc = "eval_update"
              /\ wk[w].job_id = j

\* C35: only evaluations mark jobs completed or failed: a stored job in
\* completed or failed has final_evaluation_ref = evaluations/<id> for a stored
\* evaluation <id> that refers to the job and whose next_job_state is the
\* state of the job, and no step of run_job, stop_job or submit_artifact
\* stores a job in completed or failed.
C35_OnlyEvaluationsFinish ==
    []FinalStateHasEvaluation /\ [][FinalStateStoredByEvaluation]_vars

\* a job was failed by a stored evaluation, and a later stop_job request
\* found it failed and left it so
C35_Witness ==
    \E w \in SeqWorkers, e \in EvaluationIds :
        /\ Finished(w, "stop_job")
        /\ wk[w].prev = "failed"
        /\ StoredDocState(jobs, wk[w].job_id) = "failed"
        /\ DecidedBy(wk[w].job_id, e, "failed")


\* key k is present in the status of the job stored under job_id
StatusHas(job_id, k) == k \in DOMAIN StoredGet(job_id).spec.status

\* the status fields of the job stored under job_id agree with its state
StatusAgreesWithState(job_id) ==
    LET state == StoredDocState(jobs, job_id)
    IN  /\ state = "created"
            => \A k \in {"started_at", "terminal_at", "final_evaluation_ref",
                         "failure_mode", "expiry_reason"} : ~StatusHas(job_id, k)
        /\ StatusHas(job_id, "terminal_at")
              <=> state \in {"completed", "failed", "expired"}
        /\ StatusHas(job_id, "expiry_reason") <=> state = "expired"
        /\ StatusHas(job_id, "final_evaluation_ref") <=> state \in {"completed", "failed"}
        /\ StatusHas(job_id, "failure_mode") <=> state = "failed"

\* C38: the status fields agree with the state in every stored job: a job is
\* stored by submit_job in created with none of started_at, terminal_at,
\* final_evaluation_ref, failure_mode and expiry_reason, and from then on
\* terminal_at is present exactly in completed, failed and expired,
\* expiry_reason exactly in expired, final_evaluation_ref exactly in completed
\* and failed, and failure_mode exactly in failed.
C38_StatusFieldsAgree ==
    \A j \in JobIds : HasRow(jobs, j) => StatusAgreesWithState(j)

\* a job that ran was failed by an evaluation while another stored job is
\* still in created
C38_Witness ==
    \E j, k \in JobIds :
        /\ StoredDocState(jobs, j) = "failed"
        /\ StatusHas(j, "started_at")
        /\ StatusHas(j, "failure_mode")
        /\ StoredDocState(jobs, k) = "created"


\* the positions of the events of job_id with the given type
EventsOfType(job_id, event_type) ==
    {i \in 1..Len(events) :
        events[i].job_id = job_id /\ events[i].event_type = event_type}

\* C39: every state-change event reports a real change: each
\* job_state_changed event in the log has details.from different from
\* details.to, and, the stored state of a job changing to expired once only,
\* a job has at most one job_expired event.
C39_EventsReportRealChange ==
    \A j \in JobIds :
        /\ \A i \in EventsOfType(j, "job_state_changed") :
              events[i].details.from # events[i].details.to
        /\ Cardinality(EventsOfType(j, "job_expired")) <= 1

-----------------------------------------------------------------------------
(* Properties of the gates of run_job (SpecGate) *)

\* the jobs of org_id stored in running or waiting
ActiveJobsOf(table, org_id) ==
    {j \in JobIds :
        /\ HasRow(table, j)
        /\ StoreGet(table, j).metadata.org_id = org_id
        /\ StoredDocState(table, j) \in {"running", "waiting"}}

\* max_active_jobs of an org of the registry
MaxActiveJobsOf(org_id) == _orgs[org_id].spec.execution_limits.concurrency.max_active_jobs

\* C36: with requests served one after another, the number of stored jobs
\* of an org in running or waiting never exceeds the max_active_jobs of that
\* org, for every org of the registry.
C36_ActiveJobsWithinLimit ==
    \A org_id \in DOMAIN _orgs :
        Cardinality(ActiveJobsOf(jobs, org_id)) <= MaxActiveJobsOf(org_id)

\* max_job_starts_per_minute of an org of the registry
MaxStartsOf(org_id) == _orgs[org_id].spec.execution_limits.rate_limits.max_job_starts_per_minute

\* the concurrency gate is closed for the job stored under job_id
ConcurrencyGateClosed(job_id) ==
    LET org_id == StoreGet(jobs, job_id).metadata.org_id
        active == Cardinality(ActiveJobsOf(jobs, org_id))
    IN  \/ /\ StoredDocState(jobs, job_id) = "created"
           /\ active >= MaxActiveJobsOf(org_id)
        \/ /\ StoredDocState(jobs, job_id) = "waiting"
           /\ active > MaxActiveJobsOf(org_id)

\* the rows of the log that are job_started events of org_id
JobStartedRows(org_id) ==
    {i \in DOMAIN events :
        events[i].event_type = "job_started" /\ events[i].org_id = org_id}

RunOfDisabledOrg(w) ==
    /\ Finished(w, "run_job")
    /\ HasRow(jobs, wk[w].job_id)
    /\ StoreGet(jobs, wk[w].job_id).metadata.org_id \in DOMAIN _orgs
    /\ MaxActiveJobsOf(StoreGet(jobs, wk[w].job_id).metadata.org_id) <= 0

C17_RateLimit ==
    \A org_id \in DOMAIN _orgs :
        MaxStartsOf(org_id) > 0 =>
            \A i \in JobStartedRows(org_id) :
                Cardinality({k \in JobStartedRows(org_id) :
                    /\ parse_rfc3339(events[k].ts) <= parse_rfc3339(events[i].ts)
                    /\ parse_rfc3339(events[k].ts)
                          >= parse_rfc3339(events[i].ts) - timedelta(RateWindowSeconds)})
                  <= MaxStartsOf(org_id)

-----------------------------------------------------------------------------
(* Properties of requests served at the same time (SpecRace, SpecExpiry) *)

\* worker w's run_job has returned job_id in running
StartedBy(w, job_id) ==
    /\ Finished(w, "run_job")
    /\ wk[w].job_id = job_id
    /\ wk[w].ret.kind = "ok"
    /\ wk[w].ret.job.spec.status.state = "running"

\* job_id is stored under its own id in running and has a job_started event
StoredStarted(job_id) ==
    /\ HasRow(jobs, job_id)
    /\ StoreGet(jobs, job_id).metadata.job_id = job_id
    /\ StoredDocState(jobs, job_id) = "running"
    /\ \E i \in DOMAIN events :
          events[i].event_type = "job_started" /\ events[i].job_id = job_id

\* C18: when two run_job requests served at the same time have started two
\* different jobs, neither job is lost: each is stored under its own id in
\* running and has a job_started event.  (That the two can both pass the
\* gate, the count of active jobs of the org reaching max_active_jobs + 1,
\* is the state C18_Witness.)
C18_NoJobLost ==
    \A w1 \in Workers, w2 \in Workers, j1 \in JobIds, j2 \in JobIds :
        (w1 # w2 /\ j1 # j2 /\ StartedBy(w1, j1) /\ StartedBy(w2, j2)) =>
            StoredStarted(j1) /\ StoredStarted(j2)

\* two run_job requests, each for a job of orgA it read in created, have
\* both returned their job in running, and orgA has max_active_jobs + 1
\* active jobs
C18_Witness ==
    /\ StartedBy("w1", "j1") /\ wk["w1"].prev = "created"
    /\ StartedBy("w2", "j2") /\ wk["w2"].prev = "created"
    /\ StoredStarted("j1") /\ StoredStarted("j2")
    /\ StoreGet(jobs, "j1").metadata.org_id = "orgA"
    /\ StoreGet(jobs, "j2").metadata.org_id = "orgA"
    /\ Cardinality(ActiveJobsOf(jobs, "orgA")) = MaxActiveJobsOf("orgA") + 1

\* the status_updated_at stored for job_id
StoredStatusUpdatedAt(table, job_id) ==
    parse_rfc3339(StoreGet(table, job_id).spec.status.status_updated_at)

\* C19: whatever the interleaving of the requests, the status_updated_at
\* stored for a job never decreases, so that successive reads of the job see
\* a status_updated_at that never decreases.
C19_MonotonicStatusUpdatedAt ==
    [][\A j \in JobIds :
          (HasRow(jobs, j) /\ HasRow(jobs', j)) =>
              StoredStatusUpdatedAt(jobs', j) >= StoredStatusUpdatedAt(jobs, j)]_vars

\* worker w has written, or has finished, an attempt to expire a job that it
\* read in a state that is not terminal
ExpiryAttempted(w) ==
    \/ wk[w].pc \in {"run_expire_event", "eval_expire_event"}
    \/ /\ wk[w].pc = "done"
       /\ wk[w].op \in {"run_job", "submit_evaluation"}
       /\ wk[w].prev \in {"created", "running", "waiting"}
       /\ HasRow(jobs, wk[w].job_id)
       /\ parse_rfc3339(StoreGet(jobs, wk[w].job_id).spec.timestamps.expires_at) <= wk[w].t
       /\ wk[w].ret.kind \in {"ok", "ConflictError"}

\* C20: when run_job and submit_evaluation requests served at the same time
\* attempt to expire the same job, then under every interleaving, from the
\* first write of an attempt on, the job is stored as expired with
\* expiry_reason expires_at_reached; every attempt appends its own
\* job_expired event.
C20_ExpiryConverges ==
    \A w \in Workers :
        ExpiryAttempted(w) =>
            /\ StoredExpired(jobs, wk[w].job_id)
            /\ wk[w].pc = "done" =>
                  /\ wk[w].n_ev = 1
                  /\ \E i \in DOMAIN events :
                        /\ events[i].event_type = "job_expired"
                        /\ events[i].job_id = wk[w].job_id

\* a run_job and a submit_evaluation that both read j1 before either wrote
\* have both finished their attempt to expire it: j1 is stored expired and
\* the log has two job_expired events for it
C20_Witness ==
    /\ Finished("w1", "run_job") /\ Finished("w2", "submit_evaluation")
    /\ wk["w1"].job_id = "j1" /\ wk["w2"].job_id = "j1"
    /\ ExpiryAttempted("w1") /\ ExpiryAttempted("w2")
    /\ wk["w1"].prev = "created" /\ wk["w2"].prev = "created"
    /\ wk["w1"].ret.kind = "ok" /\ wk["w2"].ret.kind = "ConflictError"
    /\ StoredExpired(jobs, "j1")
    /\ Cardinality({i \in DOMAIN events :
           events[i].event_type = "job_expired" /\ events[i].job_id = "j1"}) = 2

\* the stored job job_id has a started_at
HasStartedAt(table, job_id) ==
    HasRow(table, job_id) /\ "started_at" \in DOMAIN StoreGet(table, job_id).spec.status

\* C25: started_at is set once: a step that stores a job in running when
\* the stored job had no started_at stores one, and from then on every
\* step, whatever transitions it stores, leaves the stored started_at at
\* that value.
C25_StartedAtSetOnce ==
    [][\A j \in JobIds :
          /\ (HasRow(jobs, j) /\ ~HasStartedAt(jobs, j)
                /\ StoredDocState(jobs', j) = "running")
                => HasStartedAt(jobs', j)
          /\ HasStartedAt(jobs, j) =>
                /\ HasStartedAt(jobs', j)
                /\ StoreGet(jobs', j).spec.status.started_at
                      = StoreGet(jobs, j).spec.status.started_at]_vars


\* C37: no update of a job is lost: with run_job, stop_job and
\* submit_evaluation requests for the same job served at the same time, once
\* a terminal state is stored for the job no later write replaces it with a
\* state that is not terminal or with another terminal state.
C37_NoLostTerminalState ==
    [][\A j \in JobIds :
          (HasRow(jobs, j) /\ is_terminal(StoredDocState(jobs, j)))
              => StoredDocState(jobs', j) = StoredDocState(jobs, j)]_vars

-----------------------------------------------------------------------------
(* Properties of requests whose store calls can fail (SpecFail) *)

\* C21: a request that fails at a store call has committed none of its
\* writes: it has stored no document, changed no stored job and recorded no
\* event, so that the stores are as they were before the request.
C21_NoPartialCommit ==
    \A w \in Workers :
        (wk[w].pc = "done" /\ wk[w].ret.kind = "OperationalError") =>
            /\ wk[w].n_sub = 0
            /\ wk[w].n_chg = 0
            /\ wk[w].n_ev = 0

-----------------------------------------------------------------------------
(* Properties of requests that are served to their end (SpecLazy) *)

\* worker w serves a run_job request, or a submit_evaluation request that
\* passed the comparison of the orgs, and the request read job_id not
\* terminal at or after its expires_at
ExpiryRequestServed(w, job_id) ==
    /\ wk[w].job_id = job_id
    /\ wk[w].op \in {"run_job", "submit_evaluation"}
    /\ wk[w].pc \notin {"idle", "done"}
    /\ wk[w].prev \in {"created", "running", "waiting"}
    /\ parse_rfc3339(wk[w].job.spec.timestamps.expires_at) <= wk[w].t

\* a step of get_job, stop_job or submit_artifact on a job that is due to
\* expire does not store it expired, and the request goes on as it does for
\* a job that is not due
PassiveOnDueJob(w) ==
    (wk'[w] # wk[w] /\ wk'[w].op \in {"get_job", "stop_job", "submit_artifact"}) =>
        /\ \A j \in JobIds :
              StoredDocState(jobs', j) = "expired" => StoredDocState(jobs, j) = "expired"
        /\ (wk[w].pc = "idle" /\ DueToExpire(wk'[w].job_id)) =>
              LET state == StoredDocState(jobs, wk'[w].job_id)
              IN  /\ wk'[w].op = "get_job" =>
                        /\ wk'[w].ret.kind = "ok"
                        /\ wk'[w].ret.job = StoredGet(wk'[w].job_id)
                  /\ wk'[w].op = "stop_job" =>
                        IF state = "running" THEN wk'[w].pc = "stop_update"
                        ELSE IF state = "waiting" THEN wk'[w].ret.kind = "ok"
                        ELSE wk'[w].ret.kind = "ConflictError"
                  /\ wk'[w].op = "submit_artifact" =>
                        \A artifact \in ArtifactInputs :
                            (/\ wk'[w].doc_id = artifact.metadata.artifact_id
                             /\ ArtifactJobAndTypeOk(artifact)
                             /\ ArtifactAgentEmpty(artifact)
                                  \/ ArtifactAgentIncluded(artifact))
                            => \/ wk'[w].pc = "artifact_append"
                               \/ ~SubmitArtifactGet(w, artifact, TRUE)

\* worker w has served a run_job or submit_evaluation request for job_id
\* to its end
ReturnedFor(w, job_id) ==
    /\ wk[w].pc = "done"
    /\ wk[w].op \in {"run_job", "submit_evaluation"}
    /\ wk[w].job_id = job_id

\* C40 as stated: if a job is not terminal when its expires_at is reached and
\* run_job or submit_evaluation requests for that job keep being served, the
\* stored job eventually is expired.
C40_LazyExpiryAsStated ==
    \A j \in JobIds :
        (<>DueToExpire(j) /\ []<>(\E w \in SeqWorkers : ReturnedFor(w, j)))
            => <>StoredExpired(jobs, j)

\* C40 amended: lazy expiry takes effect: once a run_job request, or a
\* submit_evaluation request that conforms to the schema and names the job's
\* org, has read a job that is not terminal at or after its expires_at, the
\* stored job eventually is expired with reason expires_at_reached; a job
\* stored expired stays so; and get_job, stop_job and submit_artifact on a
\* job that is due to expire neither store it expired nor fail because of
\* its expires_at.
C40_LazyExpiry ==
    /\ \A j \in JobIds :
          (\E w \in SeqWorkers : ExpiryRequestServed(w, j)) ~> StoredExpired(jobs, j)
    /\ [][\A j \in JobIds :
             (HasRow(jobs, j) /\ StoredExpired(jobs, j)) => StoredExpired(jobs', j)]_vars
    /\ [][\A w \in SeqWorkers : PassiveOnDueJob(w)]_vars

\* a run_job request read a running job at or after its expires_at and has
\* returned, and the job is stored expired
C40_Witness ==
    \E w \in SeqWorkers :
        /\ Finished(w, "run_job")
        /\ wk[w].prev = "running"
        /\ wk[w].ret.kind = "ok"
        /\ StoredExpired(jobs, wk[w].job_id)
        /\ parse_rfc3339(StoredGet(wk[w].job_id).spec.timestamps.expires_at) <= wk[w].t

====
